---- MODULE Spec2Model ----
(***************************************************************************)
(* Order orchestration of the Binance Futures trading bot: the OCO engine  *)
(* (orders/advanced/oco.py), the TWAP scheduler (orders/advanced/twap.py), *)
(* the grid engine (orders/advanced/grid.py) and the single order classes  *)
(* (orders/base.py, orders/limit.py, orders/market.py).                    *)
(*                                                                         *)
(* The exchange behind client.client.futures_* is the environment: it      *)
(* keeps a book of the orders it accepted, fills them on its own, and any  *)
(* call to it may fail.  Each engine has its own specification (SpecOCO,   *)
(* SpecTWAP, SpecGrid, SpecOrder) over the shared exchange book;           *)
(* SpecStrategies runs one strategy object of either kind.  The helpers    *)
(* Order._validate_quantity (orders/base.py) and                           *)
(* BinanceFuturesClient._make_request (client.py) have specifications of   *)
(* their own (SpecQuantity, SpecRequest).                                  *)
(***************************************************************************)
EXTENDS Integers, Sequences, FiniteSets, TLC

VARIABLES
    exch,          \* the exchange's book: Seq of orders it accepted, index = orderId
    cancelReqs,    \* per orderId: futures_cancel_order requests received
    ocoStatus,     \* OCOOrder.status
    ocoOrders,     \* OCOOrder.orders: [limit |-> id, stop |-> id], 0 = key absent
    ocoSide,       \* OCOOrder.side
    ocoLimitPrice, \* OCOOrder.limit_price
    ocoStopPrice,  \* OCOOrder.stop_price
    ocoLastInit,   \* the last OCOOrder(...) constructor call: arguments and outcome
    ocoLastPlace,  \* the last OCOOrder.place() call: outcome, ids, order requests per leg
    ocoLastPoll,   \* the last OCOOrder.get_status() call: results, cancel requests, failures
    ocoSeenFilled, \* orderIds some get_status() call has observed FILLED
    ocoPollCancels,\* per orderId: cancel requests issued from inside get_status()
    ocoPolls,      \* number of get_status() calls made
    ocoPlaces,     \* number of place() calls made
    ocoCancels,    \* number of cancel() calls made
    twStatus,      \* TWAPOrder.status
    twSide,        \* TWAPOrder.side
    twChunks,      \* TWAPOrder.chunks
    twTotal,       \* TWAPOrder.total_quantity
    twPriceLimit,  \* TWAPOrder.price_limit, 0 = None
    twFilled,      \* TWAPOrder.filled_quantity
    twOrders,      \* TWAPOrder.orders: executed quantity of each recorded chunk order
    twPc,          \* where execute() stands
    twI,           \* chunk number execute() is at
    twSubmitted,   \* chunk quantities of the futures_create_order calls made
    twSkipped,     \* chunk numbers skipped by the price limit
    twCancelRequested, \* cancel() has set the status to CANCELED
    twLastChunk,   \* the last _place_chunk call: index, price read, failure
    twInterval,    \* TWAPOrder.interval_seconds, in clock ticks
    twNow,         \* the clock: ticks since start_time of execute()
    twPlacedAt,    \* twPlacedAt[i]: the time _place_chunk(i) was called
    twDoneAt,      \* twDoneAt[i]: the time _place_chunk(i) returned or raised
    gStatus,       \* GridOrder.status
    gSide,         \* GridOrder.side: BOTH, LONG or SHORT
    gSymbolValid,  \* what client.validate_symbol reports for GridOrder.symbol
    gCount,        \* GridOrder.grid_count
    gLower,        \* GridOrder.lower_price, in cents
    gUpper,        \* GridOrder.upper_price, in cents
    gQuantity,     \* GridOrder.quantity, in millionths
    gLevels,       \* GridOrder.grid_levels: Seq of [price, quantity, order_id, status, side]
    gPlaceCalls,   \* per level: the futures_create_order calls of the last operation, in order
    gFillSeen,     \* per level: the level side whose fill the last update() observed, or NONE
    gReplaceFailed,\* levels whose re-placement after a fill failed
    gCancelAlls,   \* futures_cancel_all_open_orders requests received
    gCalls,        \* number of start(), update(), stop() calls made
    oKind,         \* class of the constructed order object, NONE before
    oStatus,       \* Order.status
    oOrderId,      \* Order.order_id, 0 = None
    oIdIsStr,      \* Order.order_id is a str (cancel and get_status require one)
    oHasQty,       \* the attribute quantity exists on the order object
    oHasStop,      \* the attribute stop_price exists on the order object
    oQty,          \* the attribute quantity, when it exists
    oOrigQty,      \* Order.original_quantity
    oFilled,       \* Order.filled_quantity
    oLast,         \* the last operation on the order and how it ended
    oCalls,        \* number of operations called on the order
    vqLast,        \* the Order._validate_quantity call under check: arguments and result
    rqLog,         \* the _make_request calls made: attempts and how each ended
    lkMeta,        \* the exchange's metadata of the symbol looked up: status, permissions
    lkStack,       \* the call stack of a symbol lookup: function names, innermost last
    lkSignal,      \* what the innermost frame resumes with: a call, a return value, an exception
    lkRequests,    \* futures_exchange_info requests the lookup has issued
    lkResult,      \* how the outermost call of the lookup ended, "none" before
    twRefusals     \* execute() calls of the TWAP plan that were refused

vars == <<exch, cancelReqs, ocoStatus, ocoOrders, ocoSide, ocoLimitPrice,
          ocoStopPrice, ocoLastInit, ocoLastPlace,
          ocoLastPoll, ocoSeenFilled, ocoPollCancels, ocoPolls, ocoPlaces,
          ocoCancels, twStatus, twSide, twChunks, twTotal, twPriceLimit,
          twFilled, twOrders, twPc, twI, twSubmitted, twSkipped,
          twCancelRequested, twLastChunk, twInterval, twNow, twPlacedAt,
          twDoneAt, gStatus, gSide, gSymbolValid, gCount, gLower, gUpper,
          gQuantity, gLevels, gPlaceCalls, gFillSeen, gReplaceFailed,
          gCancelAlls, gCalls, oKind, oStatus, oOrderId, oIdIsStr, oHasQty,
          oHasStop, oQty, oOrigQty, oFilled, oLast, oCalls, vqLast, rqLog,
          lkMeta, lkStack, lkSignal, lkRequests, lkResult, twRefusals>>

\* The records of the client-side helper calls.
\* The symbol lookup of the client.
lkVars == <<lkMeta, lkStack, lkSignal, lkRequests, lkResult>>

callVars == <<vqLast, rqLog, lkVars, twRefusals>>

oVars == <<oKind, oStatus, oOrderId, oIdIsStr, oHasQty, oHasStop, oQty,
           oOrigQty, oFilled, oLast, oCalls>>

\* The attributes only LimitOrder and StopLimitOrder methods assign.
oAttrs == <<oHasQty, oHasStop, oQty>>

gVars == <<gStatus, gSide, gSymbolValid, gCount, gLower, gUpper, gQuantity, gLevels,
           gPlaceCalls, gFillSeen, gReplaceFailed, gCancelAlls, gCalls>>

twVars == <<twStatus, twSide, twChunks, twTotal, twPriceLimit, twFilled,
            twOrders, twPc, twI, twSubmitted, twSkipped, twCancelRequested,
            twLastChunk, twInterval, twNow, twPlacedAt, twDoneAt>>

\* The clock of execute() and what it recorded.
twClock == <<twNow, twPlacedAt, twDoneAt>>

ocoVars == <<ocoStatus, ocoOrders, ocoSide, ocoLimitPrice, ocoStopPrice,
            ocoLastInit, ocoLastPlace, ocoLastPoll,
             ocoSeenFilled, ocoPollCancels, ocoPolls, ocoPlaces, ocoCancels>>

-----------------------------------------------------------------------------
(* Bounds of the model *)

MaxOrders == 4      \* orders the exchange accepts in one run
MaxPolls == 3       \* OCOOrder.get_status() calls in one run
MaxPlaces == 2      \* OCOOrder.place() calls in one run
MaxCancels == 1     \* OCOOrder.cancel() calls in one run
MaxChunks == 3      \* largest TWAPOrder.chunks
MaxChunkSize == 2   \* largest TWAP chunk_size, in whole quantity units
MaxPrice == 3       \* market prices are 1..MaxPrice
MaxInterval == 2    \* largest TWAP interval between two chunks, in ticks
MaxDelay == 3       \* longest time one _place_chunk call takes, in ticks
MaxGrid == 2        \* largest GridOrder.grid_count
MaxUpdates == 2     \* GridOrder.update() calls in one run
MaxFaults == 1      \* exchange calls that fail within one grid operation
MaxFills == 2       \* grid orders the exchange fills in one run
MaxLevels == 5      \* largest grid_count handed to the GridOrder constructor
MaxCents == 6       \* largest price handed to the GridOrder constructor, in cents
MaxQty == 2         \* largest order quantity, in lot steps
MaxOCOPrice == 2      \* OCO prices offered to the constructor: 0..MaxOCOPrice
MaxRequests == 3      \* _make_request calls per behaviour
MaxFillQty == 3       \* largest quantity of the orders of SpecLimitQty
RecursionLimit == 7   \* frames the interpreter allows a lookup to nest
MaxRefusals == 1      \* refused execute() calls per plan
MaxOrderCalls == 4  \* operations called on one order object in one run
MaxUnits == 8         \* quantities checked by _validate_quantity, in base units
MaxStep == 3          \* stepSize values checked, in base units

-----------------------------------------------------------------------------
(* The exchange (environment) *)

LiveStatuses == {"NEW", "PARTIALLY_FILLED"}

Opposite(side) == IF side = "BUY" THEN "SELL" ELSE "BUY"

\* The record the exchange keeps for an accepted order.
NewOrder(owner, level, side, qty) ==
    [owner |-> owner, level |-> level, side |-> side, qty |-> qty,
     status |-> "NEW", executed |-> 0]

IsLive(ex, id) == id \in 1..Len(ex) /\ ex[id].status \in LiveStatuses

\* futures_cancel_order: succeeds only for a live order and when the call
\* itself does not fail; otherwise it raises.
CancelSucceeds(ex, id, callFails) == ~callFails /\ IsLive(ex, id)

AfterCancel(ex, id, callFails) ==
    IF CancelSucceeds(ex, id, callFails)
    THEN [ex EXCEPT ![id].status = "CANCELED"]
    ELSE ex

Bump(counts, id) == [counts EXCEPT ![id] = @ + 1]

\* The exchange fills a resting order completely.
ExchFill(id) ==
    /\ IsLive(exch, id)
    /\ exch' = [exch EXCEPT ![id].status = "FILLED", ![id].executed = exch[id].qty]
    /\ UNCHANGED cancelReqs

-----------------------------------------------------------------------------
(* OCO engine: orders/advanced/oco.py *)

\* No _validate_quantity call recorded.
NoQtyCheck == [called |-> FALSE, quantity |-> 0, has |-> FALSE, min |-> 0,
               max |-> 0, step |-> 0, ok |-> FALSE, qty |-> 0]

NoOrders == [limit |-> 0, stop |-> 0]
NoInit == [called |-> FALSE, raised |-> FALSE, side |-> "NONE", quantity |-> 0,
           limit |-> 0, stop |-> 0, stopLimit |-> 0, symbolValid |-> FALSE]

\* (mutant) the limit price is not compared with the stop price.
OCO_validate_inputs_noorder(side, quantity, limit, stop, stopLimit, symbolValid) ==
    /\ side \in {"BUY", "SELL"}
    /\ quantity > 0
    /\ limit > 0 /\ stop > 0 /\ stopLimit > 0
    /\ symbolValid

\* OCOOrder._validate_inputs returns without raising.
OCO_validate_inputs(side, quantity, limit, stop, stopLimit, symbolValid) ==
    /\ side \in {"BUY", "SELL"}
    /\ quantity > 0
    /\ limit > 0 /\ stop > 0 /\ stopLimit > 0
    /\ symbolValid
    /\ ~ \/ (side = "BUY" /\ limit >= stop)
         \/ (side = "SELL" /\ limit <= stop)

\* OCOOrder(client, symbol, side, quantity, limit_price, stop_price,
\* stop_limit_price): the caller gets an object only when _validate_inputs
\* does not raise.
OCOOrder_init(side, quantity, limit, stop, stopLimit, symbolValid) ==
    LET ok == OCO_validate_inputs(side, quantity, limit, stop, stopLimit,
                                  symbolValid)
    IN /\ ocoStatus = "NONE"
       /\ ocoLastInit' = [called |-> TRUE, raised |-> ~ok, side |-> side,
                          quantity |-> quantity, limit |-> limit,
                          stop |-> stop, stopLimit |-> stopLimit,
                          symbolValid |-> symbolValid]
       /\ IF ok
          THEN /\ ocoStatus' = "INITIALIZED"
               /\ ocoSide' = side
               /\ ocoLimitPrice' = limit
               /\ ocoStopPrice' = stop
          ELSE UNCHANGED <<ocoStatus, ocoSide, ocoLimitPrice, ocoStopPrice>>
       /\ UNCHANGED <<exch, cancelReqs, ocoOrders, ocoLastPlace, ocoLastPoll,
                      ocoSeenFilled, ocoPollCancels, ocoPolls, ocoPlaces,
                      ocoCancels>>
       /\ UNCHANGED <<twVars, gVars, oVars, callVars>>

NoPlace == [called |-> FALSE, raised |-> FALSE, limitId |-> 0, stopId |-> 0,
            limitCalls |-> 0, stopCalls |-> 0]
NoPoll == [called |-> FALSE, raised |-> FALSE, limitObs |-> "NONE",
           stopObs |-> "NONE", cancels |-> {}, cancelFailed |-> {},
           readFailed |-> FALSE]

\* OCOOrder.cancel(): cancel the limit leg if recorded, then the stop leg if
\* recorded; the first failing request raises and ends the call.
\* Returns the exchange book, the request counts and whether it raised.
OCOCancelRun(ex, reqs, orders, failL, failS) ==
    LET hasL == orders.limit # 0
        hasS == orders.stop # 0
        reqs1 == IF hasL THEN Bump(reqs, orders.limit) ELSE reqs
        raisedL == hasL /\ ~CancelSucceeds(ex, orders.limit, failL)
        ex1 == IF hasL THEN AfterCancel(ex, orders.limit, failL) ELSE ex
        doS == ~raisedL /\ hasS
        reqs2 == IF doS THEN Bump(reqs1, orders.stop) ELSE reqs1
        raisedS == doS /\ ~CancelSucceeds(ex1, orders.stop, failS)
        ex2 == IF doS THEN AfterCancel(ex1, orders.stop, failS) ELSE ex1
    IN [exch |-> ex2, reqs |-> reqs2, raised |-> raisedL \/ raisedS]

\* OCOOrder.cancel() as an operation of its own.
OCOOrder_cancel(failL, failS) ==
    LET r == OCOCancelRun(exch, cancelReqs, ocoOrders, failL, failS)
    IN /\ ocoStatus # "NONE"
       /\ ocoCancels < MaxCancels
       /\ ocoCancels' = ocoCancels + 1
       /\ exch' = r.exch
       /\ cancelReqs' = r.reqs
       /\ ocoStatus' = IF r.raised THEN ocoStatus ELSE "CANCELED"
       /\ UNCHANGED <<ocoOrders, ocoSide, ocoLimitPrice, ocoStopPrice, ocoLastInit, ocoLastPlace, ocoLastPoll,
                      ocoSeenFilled, ocoPollCancels, ocoPolls, ocoPlaces>>
       /\ UNCHANGED <<twVars, gVars, oVars, callVars>>

\* The orders the except-branch of place() hands to cancel(): self.orders,
\* which place() assigns only after both legs were accepted.
OCORollbackOrders(limitId) == ocoOrders

\* OCOOrder.place(): get_price, submit the limit leg, submit the stop leg,
\* record both ids; any failure sets FAILED, calls cancel() and re-raises.
OCOOrder_place(priceOK, limitOK, stopOK, failL, failS) ==
    LET ok == priceOK /\ limitOK /\ stopOK
        limitAccepted == priceOK /\ limitOK
        limitId == IF limitAccepted THEN Len(exch) + 1 ELSE 0
        stopId == IF ok THEN Len(exch) + 2 ELSE 0
        ex1 == IF limitAccepted
               THEN Append(exch, NewOrder("limit", 0, ocoSide, 1))
               ELSE exch
        ex2 == IF ok
               THEN Append(ex1, NewOrder("stop", 0, Opposite(ocoSide), 1))
               ELSE ex1
        n == Len(ex2) - Len(exch)
        reqs1 == cancelReqs \o [i \in 1..n |-> 0]
        pc1 == ocoPollCancels \o [i \in 1..n |-> 0]
        rb == OCOCancelRun(ex2, reqs1, OCORollbackOrders(limitId), failL, failS)
    IN /\ ocoStatus # "NONE"
       /\ Len(exch) + 2 <= MaxOrders
       /\ ocoPlaces < MaxPlaces
       /\ ocoPlaces' = ocoPlaces + 1
       /\ ocoPollCancels' = pc1
       /\ ocoLastPlace' = [called |-> TRUE, raised |-> ~ok,
                           limitId |-> limitId, stopId |-> stopId,
                           limitCalls |-> IF priceOK THEN 1 ELSE 0,
                           stopCalls |-> IF limitAccepted THEN 1 ELSE 0]
       /\ IF ok
          THEN /\ exch' = ex2
               /\ cancelReqs' = reqs1
               /\ ocoOrders' = [limit |-> limitId, stop |-> stopId]
               /\ ocoStatus' = "PLACED"
          ELSE /\ exch' = rb.exch
               /\ cancelReqs' = rb.reqs
               /\ ocoOrders' = ocoOrders
               /\ ocoStatus' = IF rb.raised THEN "FAILED" ELSE "CANCELED"
       /\ UNCHANGED <<ocoSide, ocoLimitPrice, ocoStopPrice, ocoLastInit, ocoLastPoll, ocoSeenFilled, ocoPolls, ocoCancels>>
       /\ UNCHANGED <<twVars, gVars, oVars, callVars>>

\* (mutant) only the stop leg is ever cancelled.
PollLegCancelsStopOnly(obs, siblingId) ==
    obs = "FILLED" /\ siblingId # 0 /\ siblingId = ocoOrders.stop

\* One leg's part of get_status() after its status was read: when the leg
\* is FILLED and the sibling leg is recorded, a cancel request for the
\* sibling is issued; an error of that request is only logged.
PollLegCancelsSibling(obs, siblingId) == obs = "FILLED" /\ siblingId # 0

\* (mutant) the exception of a failed sibling cancel request is not caught.
PollCancelErrorRaised(cancelFailed) == cancelFailed

\* The exception of a failed sibling cancel request leaves get_status():
\* never, the inner try/except logs it as a warning.
PollCancelErrorPropagates(cancelFailed) == FALSE

\* OCOOrder.get_status(): read the limit leg (cancel the stop leg when it is
\* FILLED), then read the stop leg (cancel the limit leg when it is FILLED).
\* A failing status read raises out of the call.  Between the two reads the
\* exchange may fill the stop leg (midFill).
OCOOrder_get_status(qFailL, cFailS, midFill, qFailS, cFailL) ==
    LET L == ocoOrders.limit
        S == ocoOrders.stop
        readL == L # 0 /\ ~qFailL
        raisedL == L # 0 /\ qFailL
        obsL == IF readL THEN exch[L].status ELSE "NONE"
        cancelS == readL /\ PollLegCancelsSibling(obsL, S)
        ex1 == IF cancelS THEN AfterCancel(exch, S, cFailS) ELSE exch
        ex2 == IF midFill /\ IsLive(ex1, S)
               THEN [ex1 EXCEPT ![S].status = "FILLED", ![S].executed = ex1[S].qty]
               ELSE ex1
        failS == cancelS /\ ~CancelSucceeds(exch, S, cFailS)
        raisedCS == PollCancelErrorPropagates(failS)
        readS == ~raisedL /\ ~raisedCS /\ S # 0 /\ ~qFailS
        raisedS == ~raisedL /\ ~raisedCS /\ S # 0 /\ qFailS
        obsS == IF readS THEN ex2[S].status ELSE "NONE"
        cancelL == readS /\ PollLegCancelsSibling(obsS, L)
        ex3 == IF cancelL THEN AfterCancel(ex2, L, cFailL) ELSE ex2
        failL == cancelL /\ ~CancelSucceeds(ex2, L, cFailL)
        raisedCL == PollCancelErrorPropagates(failL)
        reqs1 == IF cancelS THEN Bump(cancelReqs, S) ELSE cancelReqs
        reqs2 == IF cancelL THEN Bump(reqs1, L) ELSE reqs1
        pc1 == IF cancelS THEN Bump(ocoPollCancels, S) ELSE ocoPollCancels
        pc2 == IF cancelL THEN Bump(pc1, L) ELSE pc1
    IN /\ ocoStatus # "NONE"
       /\ ocoPolls < MaxPolls
       /\ ocoPolls' = ocoPolls + 1
       /\ exch' = ex3
       /\ cancelReqs' = reqs2
       /\ ocoPollCancels' = pc2
       /\ ocoStatus' = IF obsS = "FILLED" THEN "STOP_FILLED"
                       ELSE IF obsL = "FILLED" THEN "LIMIT_FILLED"
                       ELSE ocoStatus
       /\ ocoSeenFilled' = ocoSeenFilled
                             \cup (IF obsL = "FILLED" THEN {L} ELSE {})
                             \cup (IF obsS = "FILLED" THEN {S} ELSE {})
       /\ ocoLastPoll' = [called |-> TRUE,
                          raised |-> raisedL \/ raisedCS \/ raisedS \/ raisedCL,
                          limitObs |-> obsL, stopObs |-> obsS,
                          cancels |-> (IF cancelS THEN {"stop"} ELSE {})
                                      \cup (IF cancelL THEN {"limit"} ELSE {}),
                          cancelFailed |-> (IF failS THEN {"stop"} ELSE {})
                                           \cup (IF failL THEN {"limit"} ELSE {}),
                          readFailed |-> raisedL \/ raisedS]
       /\ UNCHANGED <<ocoOrders, ocoSide, ocoLimitPrice, ocoStopPrice, ocoLastInit, ocoLastPlace, ocoPlaces, ocoCancels>>
       /\ UNCHANGED <<twVars, gVars, oVars, callVars>>

InitExchange ==
    /\ exch = <<>>
    /\ cancelReqs = <<>>

\* An OCO object nothing was called on yet.
InitOCOFresh ==
    /\ ocoLastInit = NoInit
    /\ ocoOrders = NoOrders
    /\ ocoLastPlace = NoPlace
    /\ ocoLastPoll = NoPoll
    /\ ocoSeenFilled = {}
    /\ ocoPollCancels = <<>>
    /\ ocoPolls = 0
    /\ ocoPlaces = 0
    /\ ocoCancels = 0

\* No OCO object exists.
InitOCOIdle ==
    /\ InitOCOFresh
    /\ ocoStatus = "NONE"
    /\ ocoLimitPrice = 0
    /\ ocoStopPrice = 0

\* No helper call was made.
\* No lookup was started.
InitLookupIdle ==
    /\ lkStack = <<>>
    /\ lkSignal = [kind |-> "idle", value |-> "none"]
    /\ lkRequests = 0
    /\ lkResult = "none"

InitCallsIdle ==
    /\ vqLast = NoQtyCheck
    /\ rqLog = <<>>
    /\ twRefusals = 0
    /\ lkMeta = [status |-> "TRADING", permissions |-> TRUE]
    /\ InitLookupIdle


-----------------------------------------------------------------------------
(* TWAP scheduler: orders/advanced/twap.py *)

Min(a, b) == IF a <= b THEN a ELSE b
Max(a, b) == IF a >= b THEN a ELSE b

RECURSIVE SumSeq(_)
SumSeq(q) == IF q = <<>> THEN 0 ELSE Head(q) + SumSeq(Tail(q))

Prices == 1..MaxPrice

\* chunk_size = total_quantity / chunks.  Quantities are counted in a unit
\* that divides the chunk size, so the division is exact.
TWAPChunkSize == twTotal \div twChunks

\* (mutant) the larger of the two quantities instead of the smaller.
TWAPChunkQtyMax == Max(TWAPChunkSize, twTotal - twFilled)

\* _place_chunk: the quantity of the next chunk order.
TWAPChunkQty == Min(TWAPChunkSize, twTotal - twFilled)

\* (mutant) the BUY rule is applied to either side.
TWAPPriceAboveLimit(price) ==
    twPriceLimit # 0 /\ price > twPriceLimit

\* _place_chunk: the price limit rejects the current market price.
TWAPPriceOutsideLimit(price) ==
    /\ twPriceLimit # 0
    /\ \/ twSide = "BUY" /\ price > twPriceLimit
       \/ twSide = "SELL" /\ price < twPriceLimit

\* execute(), after _place_chunk(i) returned: chunk 1 is placed before the
\* loop; the loop runs i = 2..chunks and breaks once everything is filled.
TWAPAfterChunk(i, filled) ==
    IF i >= 2 /\ filled >= twTotal THEN "finish"
    ELSE IF i + 1 <= twChunks THEN "wait"
    ELSE "finish"

\* execute(): the guard, then status EXECUTING and chunk 1 next.
TWAPOrder_execute ==
    /\ twPc = "idle"
    /\ twStatus = "INITIALIZED"
    /\ twStatus' = "EXECUTING"
    /\ twPc' = "chunk"
    /\ twI' = 1
    /\ twNow' = 0
    /\ UNCHANGED <<twSide, twChunks, twTotal, twPriceLimit, twFilled, twOrders,
                   twSubmitted, twSkipped, twCancelRequested, twLastChunk,
                   twInterval, twPlacedAt, twDoneAt>>

\* (mutant) the guard of execute() stands inside its try block, whose
\* except-branch marks the plan FAILED.
TWAPRefusedStatusFailed(status) == "FAILED"

\* execute() called with a status other than INITIALIZED: the ValueError is
\* raised before the try block, the status stays what it was.
TWAPRefusedStatus(status) == status

\* execute() on a plan that was executed before, or is being executed by
\* another caller: it raises at once.
TWAPOrder_execute_refused ==
    /\ twStatus \notin {"NONE", "INITIALIZED"}
    /\ twRefusals < MaxRefusals
    /\ twRefusals' = twRefusals + 1
    /\ twStatus' = TWAPRefusedStatus(twStatus)
    /\ UNCHANGED <<twSide, twChunks, twTotal, twPriceLimit, twFilled, twOrders,
                   twPc, twI, twSubmitted, twSkipped, twCancelRequested,
                   twLastChunk, twInterval, twClock>>
    /\ UNCHANGED <<exch, cancelReqs, ocoVars, gVars, oVars, vqLast, rqLog, lkVars>>

\* (mutant) a rejected order is skipped like a chunk outside the price
\* limit; only a failing price query raises.
TWAPChunkRaisesOnPriceOnly(nothingLeft, priceOK, submits, orderOK) ==
    ~nothingLeft /\ ~priceOK

\* _place_chunk raises when get_price or futures_create_order raises; the
\* except-branch re-raises.
TWAPChunkRaises(nothingLeft, priceOK, submits, orderOK) ==
    ~nothingLeft /\ (~priceOK \/ (submits /\ ~orderOK))

NoChunk == [i |-> 0, price |-> 0, failed |-> FALSE]

\* One call _place_chunk(twI) and the loop control of execute() after it.
\* priceOK: get_price succeeds; orderOK: the exchange accepts the order;
\* executed: the executedQty of its response; delay: the time the call takes.
TWAPOrder_place_chunk(priceOK, price, orderOK, executed, delay) ==
    LET qty == TWAPChunkQty
        nothingLeft == qty <= 0
        skipped == ~nothingLeft /\ priceOK /\ TWAPPriceOutsideLimit(price)
        submits == ~nothingLeft /\ priceOK /\ ~skipped
        raised == TWAPChunkRaises(nothingLeft, priceOK, submits, orderOK)
        placed == submits /\ orderOK
        filled1 == IF placed THEN twFilled + executed ELSE twFilled
    IN /\ twPc = "chunk"
       /\ executed \in 0..Max(qty, 0)
       /\ twSubmitted' = IF submits THEN Append(twSubmitted, qty) ELSE twSubmitted
       /\ twSkipped' = IF skipped THEN twSkipped \cup {twI} ELSE twSkipped
       /\ twOrders' = IF placed THEN Append(twOrders, executed) ELSE twOrders
       /\ twFilled' = filled1
       /\ twLastChunk' = [i |-> twI,
                          price |-> IF ~nothingLeft /\ priceOK THEN price ELSE 0,
                          failed |-> ~nothingLeft /\ (~priceOK \/ (submits /\ ~orderOK))]
       /\ IF raised
          THEN /\ twStatus' = "FAILED"
               /\ twPc' = "raised"
               /\ twI' = twI
          ELSE /\ twStatus' = twStatus
               /\ twPc' = TWAPAfterChunk(twI, filled1)
               /\ twI' = IF TWAPAfterChunk(twI, filled1) = "wait" THEN twI + 1 ELSE twI
       /\ twPlacedAt' = Append(twPlacedAt, twNow)
       /\ twDoneAt' = Append(twDoneAt, twNow + delay)
       /\ twNow' = twNow + delay
       /\ UNCHANGED <<twSide, twChunks, twTotal, twPriceLimit, twCancelRequested,
                      twInterval>>

\* The executedQty a market chunk order of quantity qty can report: nothing,
\* all of it, or one or two hundredths of a unit less.
TWAPExecutedChoices(qty) == {e \in {0, qty - 2, qty - 1, qty} : e >= 0}

\* (mutant) a fixed pause of one interval between two chunks.
TWAPSleepTimeFixed(i, now) == twInterval

\* execute(): sleep_time = max(0, (i - 1) * interval_seconds - time_elapsed).
TWAPSleepTime(i, now) == Max(0, (i - 1) * twInterval - now)

\* execute(): the top of the loop body, the sleep until chunk twI is due;
\* time.sleep(d) moves the clock by d.
TWAPOrder_sleep ==
    /\ twPc = "wait"
    /\ twPc' = "chunk"
    /\ twNow' = twNow + TWAPSleepTime(twI, twNow)
    /\ UNCHANGED <<twStatus, twSide, twChunks, twTotal, twPriceLimit, twFilled,
                   twOrders, twI, twSubmitted, twSkipped, twCancelRequested,
                   twLastChunk, twInterval, twPlacedAt, twDoneAt>>

\* (mutant) COMPLETED only when everything is filled.
TWAPFinalStatusExact(filled, total) ==
    IF filled >= total THEN "COMPLETED" ELSE "PARTIALLY_FILLED"

\* execute(): filled_quantity >= total_quantity * 0.99 gives COMPLETED,
\* anything less PARTIALLY_FILLED.
TWAPFinalStatus(filled, total) ==
    IF filled * 100 >= total * 99 THEN "COMPLETED" ELSE "PARTIALLY_FILLED"

\* execute(): the final status once the schedule is through.
TWAPOrder_finish ==
    /\ twPc = "finish"
    /\ twStatus' = TWAPFinalStatus(twFilled, twTotal)
    /\ twPc' = "done"
    /\ UNCHANGED <<twSide, twChunks, twTotal, twPriceLimit, twFilled, twOrders,
                   twI, twSubmitted, twSkipped, twCancelRequested, twLastChunk,
                   twInterval, twClock>>

\* cancel(), called from another thread or callback at any time.
TWAPOrder_cancel ==
    /\ twStatus \in {"EXECUTING", "PARTIALLY_FILLED"}
    /\ twStatus' = "CANCELED"
    /\ twCancelRequested' = TRUE
    /\ UNCHANGED <<twSide, twChunks, twTotal, twPriceLimit, twFilled, twOrders,
                   twPc, twI, twSubmitted, twSkipped, twLastChunk, twInterval,
                   twClock>>

InitTWAPIdle ==
    /\ twStatus = "NONE"
    /\ twSide = "BUY"
    /\ twChunks = 1
    /\ twTotal = 1
    /\ twPriceLimit = 0
    /\ twFilled = 0
    /\ twOrders = <<>>
    /\ twPc = "idle"
    /\ twI = 0
    /\ twSubmitted = <<>>
    /\ twSkipped = {}
    /\ twCancelRequested = FALSE
    /\ twLastChunk = NoChunk
    /\ twInterval = 1
    /\ twNow = 0
    /\ twPlacedAt = <<>>
    /\ twDoneAt = <<>>

-----------------------------------------------------------------------------
(* Grid engine: orders/advanced/grid.py *)

\* round(): num/den rounded to the nearest integer, ties to the even one.
RoundHalfEven(num, den) ==
    LET q == num \div den
        r == num % den
    IN IF 2 * r < den THEN q
       ELSE IF 2 * r > den THEN q + 1
       ELSE IF q % 2 = 0 THEN q ELSE q + 1

\* _calculate_grid_levels: level l (1-based) has price
\* round(lower + (l-1) * (upper-lower)/(grid_count-1), 2), in cents.
GridLevelPrice(lower, upper, count, l) ==
    RoundHalfEven(lower * (count - 1) + (l - 1) * (upper - lower), count - 1)

\* _calculate_grid_levels: round(quantity / (grid_count-1), 6), in millionths.
GridQtyPerLevel(quantity, count) == RoundHalfEven(quantity, count - 1)

GridLevels(lower, upper, count, quantity) ==
    [l \in 1..count |->
        [price |-> GridLevelPrice(lower, upper, count, l),
         quantity |-> GridQtyPerLevel(quantity, count),
         order_id |-> 0, status |-> "PENDING", side |-> "NONE"]]

\* _validate_inputs: the configuration is accepted.
Grid_validate_inputs(lower, upper, count, quantity, side) ==
    /\ upper > lower
    /\ count >= 2
    /\ quantity > 0
    /\ side \in {"BOTH", "LONG", "SHORT"}

\* GridOrder(...): store the parameters, validate them, compute the levels.
\* A refused configuration raises ValueError and leaves no object.
GridOrder_init(lower, upper, count, quantity, side) ==
    /\ gStatus = "NONE"
    /\ IF Grid_validate_inputs(lower, upper, count, quantity, side)
       THEN /\ gStatus' = "INITIALIZED"
            /\ gSide' = side
            /\ gCount' = count
            /\ gLower' = lower
            /\ gUpper' = upper
            /\ gQuantity' = quantity
            /\ gLevels' = GridLevels(lower, upper, count, quantity)
       ELSE UNCHANGED <<gStatus, gSide, gCount, gLower, gUpper, gQuantity, gLevels>>
    /\ UNCHANGED <<exch, cancelReqs, gSymbolValid, gPlaceCalls, gFillSeen,
                   gReplaceFailed, gCancelAlls, gCalls>>

\* _get_current_price: the ticker price, 0.0 when the query fails (tick < 0).
Grid_get_current_price(tick) == IF tick < 0 THEN 0 ELSE tick

\* The ticker answers the model draws: a failure, or a price around the grid.
GridTicks == {-1, gLower, gUpper}

\* Number of arguments in the domain of f that f maps into the set bad.
CountIn(f, bad) == Cardinality({x \in DOMAIN f : f[x] \in bad})

\* _place_order(level, side) on the engine state st = [levels, exch, reqs,
\* calls]: on success the level records the new order id, ACTIVE and the
\* side; a failure is printed and changes nothing.
\* (mutant) a refused order request is sent a second time.
Grid_place_order_retry(st, l, side, ok) ==
    LET call == [side |-> side, price |-> st.levels[l].price]
        calls1 == [st.calls EXCEPT ![l] = Append(@, call)]
    IN IF ok
       THEN [levels |-> [st.levels EXCEPT ![l].order_id = Len(st.exch) + 1,
                                          ![l].status = "ACTIVE",
                                          ![l].side = side],
             exch |-> Append(st.exch,
                             NewOrder("grid", l, side, st.levels[l].quantity)),
             reqs |-> Append(st.reqs, 0),
             calls |-> calls1]
       ELSE [st EXCEPT !.calls = [calls1 EXCEPT ![l] = Append(@, call)]]

Grid_place_order(st, l, side, ok) ==
    LET call == [side |-> side, price |-> st.levels[l].price]
        calls1 == [st.calls EXCEPT ![l] = Append(@, call)]
    IN IF ok
       THEN [levels |-> [st.levels EXCEPT ![l].order_id = Len(st.exch) + 1,
                                          ![l].status = "ACTIVE",
                                          ![l].side = side],
             exch |-> Append(st.exch,
                             NewOrder("grid", l, side, st.levels[l].quantity)),
             reqs |-> Append(st.reqs, 0),
             calls |-> calls1]
       ELSE [st EXCEPT !.calls = calls1]

\* _place_initial_orders, from level l on.  in.buyOK[l], in.sellOK[l]: the
\* exchange accepts the order; in.tick[l]: the ticker answer at level l.
RECURSIVE GridInitialFrom(_, _, _)
GridInitialFrom(st, l, in) ==
    IF l > gCount THEN st
    ELSE LET s1 == IF gSide \in {"BOTH", "LONG"}
                   THEN Grid_place_order(st, l, "BUY", in.buyOK[l])
                   ELSE st
             s2 == IF /\ gSide \in {"BOTH", "SHORT"}
                      /\ s1.levels[l].price > Grid_get_current_price(in.tick[l])
                   THEN Grid_place_order(s1, l, "SELL", in.sellOK[l])
                   ELSE s1
         IN GridInitialFrom(s2, l + 1, in)

NoCalls == [l \in 1..gCount |-> <<>>]
NoFills == [l \in 1..gCount |-> "NONE"]

GridState == [levels |-> gLevels, exch |-> exch, reqs |-> cancelReqs,
              calls |-> NoCalls]

\* The answers drawn for calls start() does not make are fixed.
GridStartInputsUsed(in) ==
    \A l \in 1..gCount :
        /\ gSide = "SHORT" => in.buyOK[l]
        /\ gSide = "LONG" => in.tick[l] = gLower
        /\ (gSide = "LONG"
              \/ gLevels[l].price <= Grid_get_current_price(in.tick[l]))
               => in.sellOK[l]

\* start(): status RUNNING, then the initial orders.
GridOrder_start(in) ==
    LET st == GridInitialFrom(GridState, 1, in)
    IN /\ gStatus # "NONE"
       /\ gCalls.start = 0
       /\ GridStartInputsUsed(in)
       /\ CountIn(in.buyOK, {FALSE}) + CountIn(in.sellOK, {FALSE})
              + CountIn(in.tick, {-1}) <= MaxFaults
       /\ gCalls' = [gCalls EXCEPT !.start = @ + 1]
       /\ gStatus' = "RUNNING"
       /\ gLevels' = st.levels
       /\ exch' = st.exch
       /\ cancelReqs' = st.reqs
       /\ gPlaceCalls' = st.calls
       /\ gFillSeen' = NoFills
       /\ UNCHANGED <<gSide, gSymbolValid, gCount, gLower, gUpper, gQuantity,
                      gReplaceFailed, gCancelAlls>>

\* (mutant) the branches of _on_order_filled swapped.
Grid_on_order_filled_same(levelSide) ==
    IF levelSide = "BUY" THEN "BUY" ELSE "SELL"

\* _on_order_filled: the side of the order placed after a fill.
Grid_on_order_filled_side(levelSide) ==
    IF levelSide = "BUY" THEN "SELL" ELSE "BUY"

\* _check_filled_orders, from level l on, on st extended with the fills seen
\* and the failed re-placements.  in.queryOK[l]: futures_get_order answers;
\* in.placeOK[l]: the exchange accepts the re-placement.
RECURSIVE GridCheckFrom(_, _, _)
GridCheckFrom(st, l, in) ==
    IF l > gCount THEN st
    ELSE LET lev == st.levels[l]
             polled == lev.status = "ACTIVE" /\ lev.order_id # 0 /\ in.queryOK[l]
             filled == polled /\ st.exch[lev.order_id].status = "FILLED"
             marked == [st EXCEPT !.levels[l].status = "FILLED",
                                  !.seen[l] = lev.side]
             p == Grid_place_order([levels |-> marked.levels, exch |-> marked.exch,
                                    reqs |-> marked.reqs, calls |-> marked.calls],
                                   l, Grid_on_order_filled_side(lev.side),
                                   in.placeOK[l])
             s1 == IF filled
                   THEN [levels |-> p.levels, exch |-> p.exch, reqs |-> p.reqs,
                         calls |-> p.calls, seen |-> marked.seen,
                         failed |-> IF in.placeOK[l] THEN st.failed \ {l}
                                    ELSE st.failed \cup {l}]
                   ELSE st
         IN GridCheckFrom(s1, l + 1, in)

\* The answers drawn for calls update() does not make are fixed.
GridUpdateInputsUsed(in) ==
    \A l \in 1..gCount :
        LET polls == gLevels[l].status = "ACTIVE" /\ gLevels[l].order_id # 0
        IN /\ ~polls => in.queryOK[l]
           /\ ~(polls /\ in.queryOK[l]
                  /\ exch[gLevels[l].order_id].status = "FILLED") => in.placeOK[l]

\* update(): _check_filled_orders, then _rebalance_grid, which only reads
\* the price.
GridOrder_update(in) ==
    LET st == GridCheckFrom([levels |-> gLevels, exch |-> exch,
                             reqs |-> cancelReqs, calls |-> NoCalls,
                             seen |-> NoFills, failed |-> gReplaceFailed],
                            1, in)
    IN /\ gStatus # "NONE"
       /\ gCalls.update < MaxUpdates
       /\ GridUpdateInputsUsed(in)
       /\ CountIn(in.queryOK, {FALSE}) + CountIn(in.placeOK, {FALSE}) <= MaxFaults
       /\ gCalls' = [gCalls EXCEPT !.update = @ + 1]
       /\ gLevels' = st.levels
       /\ exch' = st.exch
       /\ cancelReqs' = st.reqs
       /\ gPlaceCalls' = st.calls
       /\ gFillSeen' = st.seen
       /\ gReplaceFailed' = st.failed
       /\ UNCHANGED <<gStatus, gSide, gSymbolValid, gCount, gLower, gUpper, gQuantity,
                      gCancelAlls>>

\* futures_cancel_all_open_orders: every live order of the symbol is cancelled.
CancelAllOpen(ex) ==
    [id \in 1..Len(ex) |->
        IF ex[id].status \in LiveStatuses
        THEN [ex[id] EXCEPT !.status = "CANCELED"] ELSE ex[id]]

\* stop(): status STOPPED, then _cancel_all_orders: one cancel-all request;
\* when it succeeds every level becomes CANCELED without order id, when it
\* fails the error is printed and the levels stay as they are.
GridOrder_stop(ok) ==
    /\ gStatus # "NONE"
    /\ gCalls.stop = 0
    /\ gCalls' = [gCalls EXCEPT !.stop = @ + 1]
    /\ gStatus' = "STOPPED"
    /\ gCancelAlls' = gCancelAlls + 1
    /\ exch' = IF ok THEN CancelAllOpen(exch) ELSE exch
    /\ gLevels' = IF ok
                  THEN [l \in 1..gCount |->
                           [gLevels[l] EXCEPT !.status = "CANCELED", !.order_id = 0]]
                  ELSE gLevels
    /\ gPlaceCalls' = NoCalls
    /\ gFillSeen' = NoFills
    /\ UNCHANGED <<cancelReqs, gSide, gSymbolValid, gCount, gLower, gUpper, gQuantity,
                   gReplaceFailed>>

InitGridIdle ==
    /\ gStatus = "NONE"
    /\ gSide = "BOTH"
    /\ gSymbolValid = TRUE
    /\ gCount = 2
    /\ gLower = 1
    /\ gUpper = 2
    /\ gQuantity = 1
    /\ gLevels = <<>>
    /\ gPlaceCalls = <<>>
    /\ gFillSeen = <<>>
    /\ gReplaceFailed = {}
    /\ gCancelAlls = 0
    /\ gCalls = [start |-> 0, update |-> 0, stop |-> 0]

-----------------------------------------------------------------------------
(* Single orders: orders/base.py, orders/market.py, orders/limit.py,       *)
(* orders/advanced/stop_limit.py.  The client handed to the constructor is *)
(* the order's environment: its answers are inputs of the actions.         *)
(* Quantities are counted in units in which quantity and step size are     *)
(* whole numbers.                                                          *)

TerminalStatuses == {"FILLED", "CANCELED", "REJECTED", "EXPIRED"}

OrderKinds == {"MARKET", "LIMIT", "STOP_LIMIT"}

NoOp == [op |-> "none", arg |-> 0, raised |-> FALSE, sent |-> FALSE,
         canceled |-> FALSE]

\* The LOT_SIZE filters get_symbol_info can report: none, or minQty, maxQty
\* and stepSize (stepSize 0 = no rounding).
LotSizes ==
    {[has |-> FALSE, min |-> 0, max |-> 0, step |-> 0]}
    \cup {[has |-> TRUE, min |-> m, max |-> MaxQty, step |-> st] :
              m \in 0..1, st \in 0..MaxQty}

\* (mutant) the quantity is rounded up to the next multiple of stepSize.
Order_validate_quantity_up(qty, info, lot) ==
    IF qty <= 0 \/ info = "raises" THEN [ok |-> FALSE, qty |-> 0]
    ELSE IF info = "none" \/ ~lot.has THEN [ok |-> TRUE, qty |-> qty]
    ELSE IF qty < lot.min \/ qty > lot.max THEN [ok |-> FALSE, qty |-> 0]
    ELSE [ok |-> TRUE,
          qty |-> IF lot.step > 0
                  THEN ((qty + lot.step - 1) \div lot.step) * lot.step
                  ELSE qty]

\* Order._validate_quantity: a quantity <= 0 is refused; a failing symbol
\* lookup is refused; without symbol info the quantity is taken as given;
\* with a LOT_SIZE filter it must lie in [minQty, maxQty] and is rounded
\* down to a multiple of stepSize.
Order_validate_quantity(qty, info, lot) ==
    IF qty <= 0 \/ info = "raises" THEN [ok |-> FALSE, qty |-> 0]
    ELSE IF info = "none" \/ ~lot.has THEN [ok |-> TRUE, qty |-> qty]
    ELSE IF qty < lot.min \/ qty > lot.max THEN [ok |-> FALSE, qty |-> 0]
    ELSE [ok |-> TRUE,
          qty |-> IF lot.step > 0 THEN (qty \div lot.step) * lot.step ELSE qty]

\* One call of Order._validate_quantity, recorded with its arguments.
Order_validate_quantity_call(quantity, info, lot) ==
    LET v == Order_validate_quantity(quantity, info, lot)
    IN /\ vqLast' = [called |-> TRUE, quantity |-> quantity,
                     has |-> (info = "found" /\ lot.has), min |-> lot.min,
                     max |-> lot.max, step |-> lot.step, ok |-> v.ok,
                     qty |-> v.qty]
       /\ UNCHANGED <<rqLog, lkVars, twRefusals>>

\* The constructor returns an object: Order.__init__ needs a valid quantity
\* and a symbol the client validates.  MarketOrder.__init__ then only sets
\* parameters.  LimitOrder.__init__ (and StopLimitOrder.__init__ through it)
\* ends by formatting the order with __str__, which reads self.quantity, an
\* attribute no constructor assigns: it raises AttributeError.
OrderConstructed(kind, quantityOK, symbolValid) ==
    quantityOK /\ symbolValid /\ kind = "MARKET"

\* MarketOrder(...) / LimitOrder(...) / StopLimitOrder(...).
Order_init(kind, qty, info, lot, symbolValid) ==
    LET v == Order_validate_quantity(qty, info, lot)
        made == OrderConstructed(kind, v.ok, symbolValid)
    IN /\ oKind = "NONE"
       /\ oCalls < MaxOrderCalls
       /\ oCalls' = oCalls + 1
       /\ oLast' = [op |-> "init", arg |-> 0, raised |-> ~made, sent |-> FALSE,
                    canceled |-> FALSE]
       /\ oKind' = IF made THEN kind ELSE "NONE"
       /\ oStatus' = IF made THEN "INITIALIZED" ELSE oStatus
       /\ oOrigQty' = IF made THEN v.qty ELSE oOrigQty
       /\ UNCHANGED <<exch, cancelReqs, oOrderId, oIdIsStr, oFilled, oAttrs>>

\* Order.cancel / Order.get_status: order_id = order_id or self.order_id.
\* arg = 0 stands for no argument; an argument is the str of an exchange id.
EffectiveId(arg) == IF arg # 0 THEN arg ELSE oOrderId

\* Order.cancel / Order.get_status raise ValidationError without an id, and
\* when the id, taken from self.order_id, is not a str.
IdRejected(arg) ==
    \/ EffectiveId(arg) = 0
    \/ arg = 0 /\ ~oIdIsStr

\* Order._update_from_status: status and filled_quantity are taken from the
\* exchange's answer; the order id is taken when none was set, as a str.
Order_update_from_status(answer, id) ==
    /\ oStatus' = answer.status
    /\ oFilled' = answer.executed
    /\ oOrderId' = IF oOrderId = 0 THEN id ELSE oOrderId
    /\ oIdIsStr' = IF oOrderId = 0 THEN TRUE ELSE oIdIsStr

\* Order.get_status(order_id): id checks, futures_get_order, then
\* _update_from_status; a failing query raises OrderError.
Order_get_status(arg, queryOK) ==
    LET id == EffectiveId(arg)
        sent == ~IdRejected(arg)
    IN /\ oKind # "NONE"
       /\ oCalls < MaxOrderCalls
       /\ oCalls' = oCalls + 1
       /\ oLast' = [op |-> "get_status", arg |-> arg, raised |-> ~(sent /\ queryOK),
                    sent |-> sent, canceled |-> FALSE]
       /\ IF sent /\ queryOK
          THEN Order_update_from_status(exch[id], id)
          ELSE UNCHANGED <<oStatus, oFilled, oOrderId, oIdIsStr>>
       /\ UNCHANGED <<exch, cancelReqs, oKind, oOrigQty, oAttrs>>

\* Order.cancel(order_id): id checks, then futures_cancel_order; a
\* successful request sets status CANCELED, a failing one raises OrderError.
Order_cancel(arg, callFails) ==
    LET id == EffectiveId(arg)
        sent == ~IdRejected(arg)
        ok == sent /\ CancelSucceeds(exch, id, callFails)
    IN /\ oKind # "NONE"
       /\ oCalls < MaxOrderCalls
       /\ oCalls' = oCalls + 1
       /\ oLast' = [op |-> "cancel", arg |-> arg, raised |-> ~ok, sent |-> sent,
                    canceled |-> ok]
       /\ exch' = IF sent THEN AfterCancel(exch, id, callFails) ELSE exch
       /\ cancelReqs' = IF sent THEN Bump(cancelReqs, id) ELSE cancelReqs
       /\ oStatus' = IF ok THEN "CANCELED" ELSE oStatus
       /\ UNCHANGED <<oKind, oOrderId, oIdIsStr, oOrigQty, oFilled, oAttrs>>

\* MarketOrder.place(): _pre_place_validation is called before the exchange
\* call and is defined nowhere, so the call raises AttributeError; the
\* except-branch sets status ERROR and raises OrderError.
MarketOrder_place ==
    /\ oKind = "MARKET"
    /\ oCalls < MaxOrderCalls
    /\ oCalls' = oCalls + 1
    /\ oLast' = [op |-> "place", arg |-> 0, raised |-> TRUE, sent |-> FALSE,
                 canceled |-> FALSE]
    /\ oStatus' = "ERROR"
    /\ UNCHANGED <<exch, cancelReqs, oKind, oOrderId, oIdIsStr, oOrigQty, oFilled,
                   oAttrs>>

\* LimitOrder.__str__ / StopLimitOrder.__str__ read self.quantity, and the
\* latter self.stop_price as well: formatting the order raises
\* AttributeError while an attribute is missing.
OrderPrintable(kind, hasQty, hasStop) ==
    hasQty /\ (kind = "STOP_LIMIT" => hasStop)

\* The exchange's answer to an accepted LIMIT / STOP_LOSS_LIMIT order of
\* quantity qty of which `executed` was executed at once.
PlacedOrder(qty, executed) ==
    [NewOrder("own", 0, "BUY", qty) EXCEPT
        !.executed = executed,
        !.status = IF executed = qty THEN "FILLED"
                   ELSE IF executed > 0 THEN "PARTIALLY_FILLED" ELSE "NEW"]

\* The status a failed placement leaves behind: the except-branch of
\* LimitOrder.place / StopLimitOrder.place.
LimitPlaceFailedStatus(statusBefore) == "FAILED"

\* LimitOrder.place() / StopLimitOrder.place() on the exchange state
\* (ex, reqs) and the object o = [status, id, idIsStr, filled, hasQty,
\* hasStop, qty].  The first statement formats the order; then the request
\* is sent.  On success order_id and status are taken from the response and
\* filled_quantity from its executedQty.  Any exception sets the failure
\* status and is raised again.
LimitPlaceRun(ex, reqs, o, orderOK, idIsStr, executed) ==
    LET sent == OrderPrintable(oKind, o.hasQty, o.hasStop)
        resp == PlacedOrder(o.qty, executed)
    IN IF sent /\ orderOK
       THEN [exch |-> Append(ex, resp), reqs |-> Append(reqs, 0),
             o |-> [o EXCEPT !.status = resp.status,
                             !.id = Len(ex) + 1,
                             !.idIsStr = idIsStr,
                             !.filled = resp.executed],
             sent |-> sent, raised |-> FALSE]
       ELSE [exch |-> ex, reqs |-> reqs,
             o |-> [o EXCEPT !.status = LimitPlaceFailedStatus(o.status)],
             sent |-> sent, raised |-> TRUE]

OrderObject == [status |-> oStatus, id |-> oOrderId, idIsStr |-> oIdIsStr,
                filled |-> oFilled, hasQty |-> oHasQty, hasStop |-> oHasStop,
                qty |-> oQty]

SetOrderObject(o) ==
    /\ oStatus' = o.status
    /\ oOrderId' = o.id
    /\ oIdIsStr' = o.idIsStr
    /\ oFilled' = o.filled
    /\ oHasQty' = o.hasQty
    /\ oHasStop' = o.hasStop
    /\ oQty' = o.qty

LimitOrder_place(orderOK, idIsStr, executed) ==
    LET r == LimitPlaceRun(exch, cancelReqs, OrderObject, orderOK, idIsStr, executed)
    IN /\ oKind \in {"LIMIT", "STOP_LIMIT"}
       /\ oCalls < MaxOrderCalls
       /\ Len(exch) < MaxOrders
       /\ oCalls' = oCalls + 1
       /\ oLast' = [op |-> "place", arg |-> 0, raised |-> r.raised, sent |-> r.sent,
                    canceled |-> FALSE]
       /\ exch' = r.exch
       /\ cancelReqs' = r.reqs
       /\ SetOrderObject(r.o)
       /\ UNCHANGED <<oKind, oOrigQty>>

\* modify(): the arguments are refused before anything is done when the
\* order has no id or no new parameter is given.  newQty = 0 stands for
\* quantity=None, newStop for a given stop_price, newPrice for a given
\* (limit) price.
ModifyRefused(newQty, newPrice, newStop) ==
    \/ oOrderId = 0
    \/ newQty = 0 /\ ~newPrice /\ ~(oKind = "STOP_LIMIT" /\ newStop)

\* modify() after its cancel step: LimitOrder reads self.quantity when no
\* new quantity is given (AttributeError when the attribute is missing) and
\* assigns quantity; StopLimitOrder assigns the given quantity and
\* stop_price only.
ModifyReadsMissingQty(newQty) == oKind = "LIMIT" /\ newQty = 0 /\ ~oHasQty

ModifyUpdated(o, newQty, newStop) ==
    [o EXCEPT !.hasQty = o.hasQty \/ newQty # 0,
              !.qty = IF newQty # 0 THEN newQty ELSE o.qty,
              !.hasStop = o.hasStop \/ (oKind = "STOP_LIMIT" /\ newStop)]

\* LimitOrder.modify(quantity, price) /
\* StopLimitOrder.modify(quantity, limit_price, stop_price): cancel(), set
\* the new parameters, place().  An exception of either step is raised.
LimitOrder_modify(newQty, newPrice, newStop, cancelFails, orderOK, idIsStr, executed) ==
    LET sentC == ~IdRejected(0)
        okC == sentC /\ CancelSucceeds(exch, oOrderId, cancelFails)
        exC == IF sentC THEN AfterCancel(exch, oOrderId, cancelFails) ELSE exch
        rqC == IF sentC THEN Bump(cancelReqs, oOrderId) ELSE cancelReqs
        canceled == [OrderObject EXCEPT !.status = "CANCELED"]
        r == LimitPlaceRun(exC, rqC, ModifyUpdated(canceled, newQty, newStop),
                           orderOK, idIsStr, executed)
        last(raised, sent, c) == [op |-> "modify", arg |-> 0, raised |-> raised,
                                  sent |-> sent, canceled |-> c]
    IN /\ oKind \in {"LIMIT", "STOP_LIMIT"}
       /\ oCalls < MaxOrderCalls
       /\ Len(exch) < MaxOrders
       /\ oCalls' = oCalls + 1
       /\ UNCHANGED <<oKind, oOrigQty>>
       /\ IF ModifyRefused(newQty, newPrice, newStop)
          THEN /\ oLast' = last(TRUE, FALSE, FALSE)
               /\ UNCHANGED <<exch, cancelReqs, oStatus, oOrderId, oIdIsStr,
                              oFilled, oAttrs>>
          ELSE IF ~okC
          THEN /\ oLast' = last(TRUE, FALSE, FALSE)
               /\ exch' = exC
               /\ cancelReqs' = rqC
               /\ UNCHANGED <<oStatus, oOrderId, oIdIsStr, oFilled, oAttrs>>
          ELSE IF ModifyReadsMissingQty(newQty)
          THEN /\ oLast' = last(TRUE, FALSE, TRUE)
               /\ exch' = exC
               /\ cancelReqs' = rqC
               /\ SetOrderObject(canceled)
          ELSE /\ oLast' = last(r.raised, r.sent, TRUE)
               /\ exch' = r.exch
               /\ cancelReqs' = r.reqs
               /\ SetOrderObject(r.o)

\* The exchange executes one more unit of a resting order.
ExchPartialFill(id) ==
    /\ IsLive(exch, id)
    /\ exch[id].executed + 1 < exch[id].qty
    /\ exch' = [exch EXCEPT ![id].status = "PARTIALLY_FILLED",
                            ![id].executed = @ + 1]
    /\ UNCHANGED cancelReqs

InitOrderIdle ==
    /\ oKind = "NONE"
    /\ oStatus = "NONE"
    /\ oOrderId = 0
    /\ oIdIsStr = FALSE
    /\ oHasQty = FALSE
    /\ oHasStop = FALSE
    /\ oQty = 0
    /\ oOrigQty = 0
    /\ oFilled = 0
    /\ oLast = NoOp
    /\ oCalls = 0

InitOCO ==
    /\ InitExchange
    /\ InitOCOFresh
    /\ ocoStatus = "INITIALIZED"
    /\ InitTWAPIdle
    /\ InitGridIdle
    /\ InitOrderIdle
    /\ InitCallsIdle
    /\ ocoSide \in {"BUY", "SELL"}
    /\ ocoLimitPrice = (IF ocoSide = "BUY" THEN 1 ELSE 2)
    /\ ocoStopPrice = (IF ocoSide = "BUY" THEN 2 ELSE 1)

OCOPlace ==
    \E priceOK, limitOK, stopOK, failL, failS \in BOOLEAN :
        OCOOrder_place(priceOK, limitOK, stopOK, failL, failS)

OCOCancel ==
    \E failL, failS \in BOOLEAN : OCOOrder_cancel(failL, failS)

OCOGetStatus ==
    \E qFailL, cFailS, midFill, qFailS, cFailL \in BOOLEAN :
        OCOOrder_get_status(qFailL, cFailS, midFill, qFailS, cFailL)

OCOExchFill ==
    \E id \in 1..Len(exch) : ExchFill(id) /\ UNCHANGED <<ocoVars, twVars, gVars, oVars, callVars>>

NextOCO == OCOPlace \/ OCOCancel \/ OCOGetStatus \/ OCOExchFill

SpecOCO == InitOCO /\ [][NextOCO]_vars

\* The OCO engine from before the constructor call.
InitOCOInit ==
    /\ InitExchange
    /\ InitOCOIdle
    /\ ocoSide = "NONE"
    /\ InitTWAPIdle
    /\ InitGridIdle
    /\ InitOrderIdle
    /\ InitCallsIdle

OCOInit ==
    \E side \in {"BUY", "SELL", "HOLD"}, quantity \in 0..1,
       limit \in 0..MaxOCOPrice, stop \in 0..MaxOCOPrice, stopLimit \in 0..1,
       symbolValid \in BOOLEAN :
        OCOOrder_init(side, quantity, limit, stop, stopLimit, symbolValid)

NextOCOInit == OCOInit \/ OCOPlace

SpecOCOInit == InitOCOInit /\ [][NextOCOInit]_vars

\* A constructed TWAPOrder: _validate_inputs passed.
InitTWAP ==
    /\ InitExchange
    /\ InitOCOIdle
    /\ InitGridIdle
    /\ InitOrderIdle
    /\ InitCallsIdle
    /\ ocoSide = "BUY"
    /\ twStatus = "INITIALIZED"
    /\ twSide \in {"BUY", "SELL"}
    /\ twChunks \in 1..MaxChunks
    /\ \E size \in 1..MaxChunkSize : twTotal = size * twChunks * 100
    /\ twPriceLimit \in {0} \cup Prices
    /\ twFilled = 0
    /\ twOrders = <<>>
    /\ twPc = "idle"
    /\ twI = 0
    /\ twSubmitted = <<>>
    /\ twSkipped = {}
    /\ twCancelRequested = FALSE
    /\ twLastChunk = NoChunk
    /\ twInterval = 1
    /\ twNow = 0
    /\ twPlacedAt = <<>>
    /\ twDoneAt = <<>>

TWAPExecute == TWAPOrder_execute /\ UNCHANGED <<exch, cancelReqs, ocoVars, gVars, oVars, callVars>>

TWAPPlaceChunk ==
    /\ \E priceOK, orderOK \in BOOLEAN, price \in Prices,
          executed \in TWAPExecutedChoices(TWAPChunkQty) :
           TWAPOrder_place_chunk(priceOK, price, orderOK, executed, 0)
    /\ UNCHANGED <<exch, cancelReqs, ocoVars, gVars, oVars, callVars>>

TWAPSleep == TWAPOrder_sleep /\ UNCHANGED <<exch, cancelReqs, ocoVars, gVars, oVars, callVars>>

TWAPFinish == TWAPOrder_finish /\ UNCHANGED <<exch, cancelReqs, ocoVars, gVars, oVars, callVars>>

TWAPCancel == TWAPOrder_cancel /\ UNCHANGED <<exch, cancelReqs, ocoVars, gVars, oVars, callVars>>

NextTWAP == TWAPExecute \/ TWAPPlaceChunk \/ TWAPSleep \/ TWAPFinish \/ TWAPCancel

SpecTWAP == InitTWAP /\ [][NextTWAP]_vars

\* The scheduler with further execute() calls on the same plan.
NextTWAPExecute == NextTWAP \/ TWAPOrder_execute_refused

SpecTWAPExecute == InitTWAP /\ [][NextTWAPExecute]_vars

\* The TWAP scheduler under a clock: a BUY plan of one unit per chunk
\* without price limit, with an interval of up to MaxInterval ticks and
\* _place_chunk calls that take up to MaxDelay ticks.  An order is filled
\* completely or not at all.
InitTWAPClock ==
    /\ InitExchange
    /\ InitOCOIdle
    /\ InitGridIdle
    /\ InitOrderIdle
    /\ InitCallsIdle
    /\ ocoSide = "BUY"
    /\ twStatus = "INITIALIZED"
    /\ twSide = "BUY"
    /\ twChunks \in 1..MaxChunks
    /\ twTotal = twChunks * 100
    /\ twPriceLimit = 0
    /\ twFilled = 0
    /\ twOrders = <<>>
    /\ twPc = "idle"
    /\ twI = 0
    /\ twSubmitted = <<>>
    /\ twSkipped = {}
    /\ twCancelRequested = FALSE
    /\ twLastChunk = NoChunk
    /\ twInterval \in 1..MaxInterval
    /\ twNow = 0
    /\ twPlacedAt = <<>>
    /\ twDoneAt = <<>>

TWAPPlaceChunkTimed ==
    /\ \E priceOK, orderOK \in BOOLEAN, executed \in {0, TWAPChunkQty},
          delay \in 0..MaxDelay :
           TWAPOrder_place_chunk(priceOK, 1, orderOK, executed, delay)
    /\ UNCHANGED <<exch, cancelReqs, ocoVars, gVars, oVars, callVars>>

NextTWAPClock ==
    TWAPExecute \/ TWAPPlaceChunkTimed \/ TWAPSleep \/ TWAPFinish \/ TWAPCancel

SpecTWAPClock == InitTWAPClock /\ [][NextTWAPClock]_vars

\* A constructed GridOrder: _validate_inputs passed, levels calculated.
\* A grid object after construction; the answer of the symbol check is
\* left open.
InitGridObject ==
    /\ InitExchange
    /\ InitOCOIdle
    /\ ocoSide = "BUY"
    /\ InitTWAPIdle
    /\ InitOrderIdle
    /\ InitCallsIdle
    /\ gStatus = "INITIALIZED"
    /\ gSide \in {"BOTH", "LONG", "SHORT"}
    /\ gCount \in 2..MaxGrid
    /\ gLower = 2
    /\ gUpper = gLower + (gCount - 1)
    /\ gQuantity = gCount - 1
    /\ gLevels = GridLevels(gLower, gUpper, gCount, gQuantity)
    /\ gPlaceCalls = NoCalls
    /\ gFillSeen = NoFills
    /\ gReplaceFailed = {}
    /\ gCancelAlls = 0
    /\ gCalls = [start |-> 0, update |-> 0, stop |-> 0]

\* No method of GridOrder reads the symbol check; SpecGrid runs the grid
\* for a tradable symbol.
InitGrid == InitGridObject /\ gSymbolValid = TRUE

GridStart ==
    /\ \E in \in [buyOK : [1..gCount -> BOOLEAN], sellOK : [1..gCount -> BOOLEAN],
                  tick : [1..gCount -> GridTicks]] : GridOrder_start(in)
    /\ UNCHANGED <<ocoVars, twVars, oVars, callVars>>

GridUpdate ==
    /\ \E in \in [queryOK : [1..gCount -> BOOLEAN],
                  placeOK : [1..gCount -> BOOLEAN]] : GridOrder_update(in)
    /\ UNCHANGED <<ocoVars, twVars, oVars, callVars>>

GridStop ==
    /\ \E ok \in BOOLEAN : GridOrder_stop(ok)
    /\ UNCHANGED <<ocoVars, twVars, oVars, callVars>>

GridExchFill ==
    /\ Cardinality({id \in 1..Len(exch) : exch[id].status = "FILLED"}) < MaxFills
    /\ \E id \in 1..Len(exch) : ExchFill(id)
    /\ UNCHANGED <<ocoVars, twVars, gVars, oVars, callVars>>

NextGrid == GridStart \/ GridUpdate \/ GridStop \/ GridExchFill

SpecGrid == InitGrid /\ [][NextGrid]_vars

\* The grid for a symbol of either kind, tradable or not.
InitGridSymbol == InitGridObject /\ gSymbolValid \in BOOLEAN

SpecGridSymbol == InitGridSymbol /\ [][NextGrid]_vars

\* The constructor of GridOrder on its own: no grid object yet, then one
\* call GridOrder(...) with prices in whole cents.
InitGridLevels ==
    /\ InitExchange
    /\ InitOCOIdle
    /\ ocoSide = "BUY"
    /\ InitTWAPIdle
    /\ InitOrderIdle
    /\ InitCallsIdle
    /\ gStatus = "NONE"
    /\ gSide = "BOTH"
    /\ gSymbolValid = TRUE
    /\ gCount = 0
    /\ gLower = 0
    /\ gUpper = 0
    /\ gQuantity = 0
    /\ gLevels = <<>>
    /\ gPlaceCalls = <<>>
    /\ gFillSeen = <<>>
    /\ gReplaceFailed = {}
    /\ gCancelAlls = 0
    /\ gCalls = [start |-> 0, update |-> 0, stop |-> 0]

GridInit ==
    /\ \E lower, upper \in 0..MaxCents, count \in 1..MaxLevels,
          quantity \in 0..MaxLevels, side \in {"BOTH", "LONG", "SHORT", "HEDGE"} :
          GridOrder_init(lower, upper, count, quantity, side)
    /\ UNCHANGED <<ocoVars, twVars, oVars, callVars>>

NextGridLevels == GridInit

SpecGridLevels == InitGridLevels /\ [][NextGridLevels]_vars

\* No order object yet.  The account holds two resting orders submitted
\* through the client directly (limit_orders.py, market_orders.py do so),
\* which get_status(order_id) and cancel(order_id) can name.
InitOrder ==
    /\ \E q1, q2 \in 1..MaxQty :
          exch = <<NewOrder("account", 0, "BUY", q1), NewOrder("account", 0, "SELL", q2)>>
    /\ cancelReqs = <<0, 0>>
    /\ InitOCOIdle
    /\ ocoSide = "BUY"
    /\ InitTWAPIdle
    /\ InitGridIdle
    /\ InitOrderIdle
    /\ InitCallsIdle

OrderInit ==
    /\ \E kind \in OrderKinds, qty \in 0..(MaxQty + 1),
          info \in {"raises", "none", "found"}, lot \in LotSizes,
          symbolValid \in BOOLEAN :
          Order_init(kind, qty, info, lot, symbolValid)
    /\ UNCHANGED <<ocoVars, twVars, gVars, callVars>>

OrderGetStatus ==
    /\ \E arg \in 0..Len(exch), queryOK \in BOOLEAN : Order_get_status(arg, queryOK)
    /\ UNCHANGED <<ocoVars, twVars, gVars, callVars>>

OrderCancel ==
    /\ \E arg \in 0..Len(exch), callFails \in BOOLEAN : Order_cancel(arg, callFails)
    /\ UNCHANGED <<ocoVars, twVars, gVars, callVars>>

MarketPlace == MarketOrder_place /\ UNCHANGED <<ocoVars, twVars, gVars, callVars>>

OrderExchFill ==
    \E id \in 1..Len(exch) : ExchFill(id) /\ UNCHANGED <<ocoVars, twVars, gVars, oVars, callVars>>

OrderExchPartialFill ==
    \E id \in 1..Len(exch) :
        ExchPartialFill(id) /\ UNCHANGED <<ocoVars, twVars, gVars, oVars, callVars>>

NextOrder ==
    \/ OrderInit \/ OrderGetStatus \/ OrderCancel \/ MarketPlace
    \/ OrderExchFill \/ OrderExchPartialFill

SpecOrder == InitOrder /\ [][NextOrder]_vars

\* The methods of LimitOrder and StopLimitOrder, applied to an object with
\* the fields Order.__init__ assigns (status INITIALIZED, no order id,
\* nothing filled; neither quantity nor stop_price is an attribute yet).
\* LimitOrder.__init__ raises in its last statement (OrderConstructed), so
\* the object is the one under construction.  The account holds one resting
\* order submitted through the client directly.
InitLimit ==
    /\ \E q \in 1..MaxQty : exch = <<NewOrder("account", 0, "BUY", q)>>
    /\ cancelReqs = <<0>>
    /\ InitOCOIdle
    /\ ocoSide = "BUY"
    /\ InitTWAPIdle
    /\ InitGridIdle
    /\ oKind \in {"LIMIT", "STOP_LIMIT"}
    /\ oStatus = "INITIALIZED"
    /\ oOrderId = 0
    /\ oIdIsStr = FALSE
    /\ oHasQty = FALSE
    /\ oHasStop = FALSE
    /\ oQty = 0
    /\ oOrigQty \in 1..MaxQty
    /\ oFilled = 0
    /\ oLast = NoOp
    /\ oCalls = 0
    /\ InitCallsIdle

LimitPlace ==
    /\ \E orderOK, idIsStr \in BOOLEAN, executed \in 0..MaxQty :
          /\ executed <= oQty
          /\ ~orderOK => (~idIsStr /\ executed = 0)
          /\ LimitOrder_place(orderOK, idIsStr, executed)
    /\ UNCHANGED <<ocoVars, twVars, gVars, callVars>>

LimitModify ==
    /\ \E newQty \in 0..MaxQty, newPrice, newStop, cancelFails, orderOK,
          idIsStr \in BOOLEAN, executed \in 0..MaxQty :
          /\ executed <= (IF newQty # 0 THEN newQty ELSE oQty)
          /\ ~orderOK => (~idIsStr /\ executed = 0)
          /\ oKind = "LIMIT" => ~newStop
          /\ LimitOrder_modify(newQty, newPrice, newStop, cancelFails, orderOK,
                               idIsStr, executed)
    /\ UNCHANGED <<ocoVars, twVars, gVars, callVars>>

NextLimit ==
    \/ LimitPlace \/ LimitModify \/ OrderGetStatus \/ OrderCancel
    \/ OrderExchFill \/ OrderExchPartialFill

SpecLimit == InitLimit /\ [][NextLimit]_vars

\* The LimitOrder methods again, with quantities up to MaxFillQty, so that
\* an order can be partially filled by more than the smallest quantity.
InitLimitQty ==
    /\ exch = <<NewOrder("account", 0, "BUY", 1)>>
    /\ cancelReqs = <<0>>
    /\ InitOCOIdle
    /\ ocoSide = "BUY"
    /\ InitTWAPIdle
    /\ InitGridIdle
    /\ oKind = "LIMIT"
    /\ oStatus = "INITIALIZED"
    /\ oOrderId = 0
    /\ oIdIsStr = FALSE
    /\ oHasQty = FALSE
    /\ oHasStop = FALSE
    /\ oQty = 0
    /\ oOrigQty = 1
    /\ oFilled = 0
    /\ oLast = NoOp
    /\ oCalls = 0
    /\ InitCallsIdle

LimitQtyPlace ==
    /\ \E orderOK, idIsStr \in BOOLEAN, executed \in 0..MaxFillQty :
          /\ executed <= oQty
          /\ ~orderOK => (~idIsStr /\ executed = 0)
          /\ LimitOrder_place(orderOK, idIsStr, executed)
    /\ UNCHANGED <<ocoVars, twVars, gVars, callVars>>

LimitQtyModify ==
    /\ \E newQty \in 0..MaxFillQty, newPrice, cancelFails, orderOK,
          idIsStr \in BOOLEAN, executed \in 0..MaxFillQty :
          /\ executed <= (IF newQty # 0 THEN newQty ELSE oQty)
          /\ ~orderOK => (~idIsStr /\ executed = 0)
          /\ LimitOrder_modify(newQty, newPrice, FALSE, cancelFails, orderOK,
                               idIsStr, executed)
    /\ UNCHANGED <<ocoVars, twVars, gVars, callVars>>

NextLimitQty ==
    \/ LimitQtyPlace \/ LimitQtyModify \/ OrderGetStatus \/ OrderCancel
    \/ OrderExchFill \/ OrderExchPartialFill

SpecLimitQty == InitLimitQty /\ [][NextLimitQty]_vars

-----------------------------------------------------------------------------
(* Specification of Order._validate_quantity alone: quantities, bounds and *)
(* step sizes are whole numbers of a base unit.                            *)

\* The LOT_SIZE filters of the check: minQty, maxQty, stepSize.
QtyLotSizes ==
    {[has |-> FALSE, min |-> 0, max |-> 0, step |-> 0]}
    \cup {[has |-> TRUE, min |-> m, max |-> mx, step |-> st] :
              m \in 0..2, mx \in {MaxUnits - 1, MaxUnits}, st \in 0..MaxStep}

InitQuantity ==
    /\ InitExchange
    /\ InitOCOIdle
    /\ ocoSide = "BUY"
    /\ InitTWAPIdle
    /\ InitGridIdle
    /\ InitOrderIdle
    /\ InitCallsIdle

ValidateQuantity ==
    /\ \E quantity \in -1..MaxUnits, info \in {"found", "none", "raises"},
          lot \in QtyLotSizes :
            Order_validate_quantity_call(quantity, info, lot)
    /\ UNCHANGED <<exch, cancelReqs, ocoVars, twVars, gVars, oVars>>

NextQuantity == ValidateQuantity

SpecQuantity == InitQuantity /\ [][NextQuantity]_vars

-----------------------------------------------------------------------------
(* The retry wrapper of the client: client.py, _make_request *)

\* BinanceFuturesClient.MAX_RETRIES
MAX_RETRIES == 3

\* How one call of the wrapped function can end: it returns, or raises a
\* Binance exception that is retried (no 4xx status, or a 4xx rate limit),
\* a Binance exception with a 4xx status, or any other exception.
RequestOutcomes == {"ok", "transient", "rate_limit", "client_error", "other"}

\* time.sleep(wait_time) in the retry branch: client.py never imports time,
\* so evaluating the name raises NameError inside the except clause.
TimeSleepRaises == TRUE

\* The loop of _make_request from the given attempt on (1-based); outs[k]
\* is how the k-th call of func ends.  Returns the number of calls of func
\* and how _make_request ends.
RECURSIVE MakeRequestFrom(_, _)
MakeRequestFrom(attempt, outs) ==
    IF attempt > MAX_RETRIES
    THEN [calls |-> MAX_RETRIES, result |-> "raised_error"]
    ELSE IF outs[attempt] = "ok"
    THEN [calls |-> attempt, result |-> "returned"]
    ELSE IF outs[attempt] \in {"client_error", "other"}
    THEN [calls |-> attempt, result |-> "raised_error"]
    ELSE IF TimeSleepRaises
    THEN [calls |-> attempt, result |-> "raised_NameError"]
    ELSE MakeRequestFrom(attempt + 1, outs)

\* BinanceFuturesClient._make_request(func, ...): one request, logged with
\* how the calls of func it made ended.
Client_make_request(outs) ==
    LET r == MakeRequestFrom(1, outs)
    IN /\ Len(rqLog) < MaxRequests
       /\ rqLog' = Append(rqLog, [caller |-> "get_exchange_info",
                                  outs |-> SubSeq(outs, 1, r.calls),
                                  calls |-> r.calls, result |-> r.result])
       /\ UNCHANGED <<vqLast, lkVars, twRefusals>>

InitRequest ==
    /\ InitExchange
    /\ InitOCOIdle
    /\ ocoSide = "BUY"
    /\ InitTWAPIdle
    /\ InitGridIdle
    /\ InitOrderIdle
    /\ InitCallsIdle

MakeRequest ==
    /\ \E outs \in [1..MAX_RETRIES -> RequestOutcomes] : Client_make_request(outs)
    /\ UNCHANGED <<exch, cancelReqs, ocoVars, twVars, gVars, oVars>>

NextRequest == MakeRequest

SpecRequest == InitRequest /\ [][NextRequest]_vars

-----------------------------------------------------------------------------
(* The symbol lookup of the client: client.py, validate_symbol,            *)
(* get_symbol_info and get_exchange_info(symbol), for a well-formed symbol. *)
(* One step runs the innermost frame up to its next call, return or raise. *)

\* validate_symbol: calls get_symbol_info; an empty answer, a status other
\* than TRADING or missing permissions give False; every exception is
\* caught and gives False.
Frame_validate_symbol(sig) ==
    IF sig.kind = "call"
    THEN [do |-> "call", value |-> "get_symbol_info", request |-> FALSE]
    ELSE IF sig.kind = "raise"
    THEN [do |-> "return", value |-> "False", request |-> FALSE]
    ELSE IF sig.value # "info"
    THEN [do |-> "return", value |-> "False", request |-> FALSE]
    ELSE IF lkMeta.status # "TRADING" \/ ~lkMeta.permissions
    THEN [do |-> "return", value |-> "False", request |-> FALSE]
    ELSE [do |-> "return", value |-> "True", request |-> FALSE]

\* get_symbol_info: calls get_exchange_info(symbol) and searches the
\* 'symbols' list of the answer; the answer of get_exchange_info(symbol)
\* is the entry of the symbol itself, which has no such list: None.  Every
\* exception is logged and raised again.
Frame_get_symbol_info(sig) ==
    IF sig.kind = "call"
    THEN [do |-> "call", value |-> "get_exchange_info", request |-> FALSE]
    ELSE IF sig.kind = "raise"
    THEN [do |-> "raise", value |-> sig.value, request |-> FALSE]
    ELSE [do |-> "return", value |-> "None", request |-> FALSE]

\* get_exchange_info(symbol): calls validate_symbol(symbol) first; False
\* raises ValueError; True issues the futures_exchange_info request and
\* returns the entry of the symbol.  Only BinanceAPIException is caught,
\* and raised again.
Frame_get_exchange_info(sig, requestOK) ==
    IF sig.kind = "call"
    THEN [do |-> "call", value |-> "validate_symbol", request |-> FALSE]
    ELSE IF sig.kind = "raise"
    THEN [do |-> "raise", value |-> sig.value, request |-> FALSE]
    ELSE IF sig.value # "True"
    THEN [do |-> "raise", value |-> "ValueError", request |-> FALSE]
    ELSE IF requestOK
    THEN [do |-> "return", value |-> "symbol_entry", request |-> TRUE]
    ELSE [do |-> "raise", value |-> "BinanceAPIException", request |-> TRUE]

FrameStep(func, sig, requestOK) ==
    IF func = "validate_symbol" THEN Frame_validate_symbol(sig)
    ELSE IF func = "get_symbol_info" THEN Frame_get_symbol_info(sig)
    ELSE Frame_get_exchange_info(sig, requestOK)

\* client.validate_symbol(symbol) or client.get_symbol_info(symbol) is
\* called from outside.
LookupStart ==
    /\ lkStack = <<>>
    /\ lkResult = "none"
    /\ \E entry \in {"validate_symbol", "get_symbol_info"} : lkStack' = <<entry>>
    /\ lkSignal' = [kind |-> "call", value |-> "none"]
    /\ UNCHANGED <<lkMeta, lkRequests, lkResult, vqLast, rqLog, twRefusals>>
    /\ UNCHANGED <<exch, cancelReqs, ocoVars, twVars, gVars, oVars>>

\* The innermost frame runs on.  A call beyond the interpreter's limit of
\* nested frames raises RecursionError in the calling frame.
LookupStep ==
    \E requestOK \in BOOLEAN :
    LET n == Len(lkStack)
        e == FrameStep(lkStack[n], lkSignal, requestOK)
    IN /\ n > 0
       /\ lkRequests' = IF e.request THEN lkRequests + 1 ELSE lkRequests
       /\ IF e.do = "call"
          THEN IF n >= RecursionLimit
               THEN /\ lkSignal' = [kind |-> "raise", value |-> "RecursionError"]
                    /\ UNCHANGED <<lkStack, lkResult>>
               ELSE /\ lkStack' = Append(lkStack, e.value)
                    /\ lkSignal' = [kind |-> "call", value |-> "none"]
                    /\ UNCHANGED lkResult
          ELSE /\ lkStack' = SubSeq(lkStack, 1, n - 1)
               /\ IF n = 1
                  THEN /\ lkResult' = e.value
                       /\ lkSignal' = [kind |-> "idle", value |-> "none"]
                  ELSE /\ lkSignal' = [kind |-> e.do, value |-> e.value]
                       /\ UNCHANGED lkResult
       /\ UNCHANGED <<lkMeta, vqLast, rqLog, twRefusals>>
       /\ UNCHANGED <<exch, cancelReqs, ocoVars, twVars, gVars, oVars>>

InitLookup ==
    /\ InitExchange
    /\ InitOCOIdle
    /\ ocoSide = "BUY"
    /\ InitTWAPIdle
    /\ InitGridIdle
    /\ InitOrderIdle
    /\ vqLast = NoQtyCheck
    /\ rqLog = <<>>
    /\ twRefusals = 0
    /\ lkMeta \in [status : {"TRADING", "BREAK", "PENDING_TRADING"},
                   permissions : BOOLEAN]
    /\ InitLookupIdle

NextLookup == LookupStart \/ LookupStep

SpecLookup == InitLookup /\ [][NextLookup]_vars

\* The exchange functions the orders and strategies call.
OrderExchangeFunctions ==
    {"futures_create_order", "futures_cancel_order", "futures_get_order"}

\* self.client.client.futures_*(...): the function of the underlying
\* Binance client is called as it is, once; what it raises is raised into
\* the calling order or strategy method.
DirectCall(outs) ==
    [calls |-> 1,
     result |-> IF outs[1] = "ok" THEN "returned" ELSE "raised_error"]

\* One exchange call made by an order or strategy method, logged like the
\* requests of the wrapper.
Order_exchange_call(func, outs) ==
    LET r == DirectCall(outs)
    IN /\ Len(rqLog) < MaxRequests
       /\ rqLog' = Append(rqLog, [caller |-> func,
                                  outs |-> SubSeq(outs, 1, r.calls),
                                  calls |-> r.calls, result |-> r.result])
       /\ UNCHANGED <<vqLast, lkVars, twRefusals>>

OrderExchangeCall ==
    /\ \E func \in OrderExchangeFunctions,
          outs \in [1..MAX_RETRIES -> RequestOutcomes] :
            Order_exchange_call(func, outs)
    /\ UNCHANGED <<exch, cancelReqs, ocoVars, twVars, gVars, oVars>>

NextGateway == MakeRequest \/ OrderExchangeCall

\* The exchange calls of the client (through _make_request) and of the
\* orders and strategies (direct).
SpecGateway == InitRequest /\ [][NextGateway]_vars

-----------------------------------------------------------------------------
(* The three strategies side by side: a behaviour has one strategy object, *)
(* an OCO order, a TWAP order or a grid, and runs its operations.          *)

InitStrategies == InitOCO \/ InitTWAP \/ InitGrid

StrategyOCO == ocoStatus # "NONE" /\ NextOCO

StrategyTWAP == twStatus # "NONE" /\ NextTWAP

StrategyGrid == gStatus # "NONE" /\ NextGrid

NextStrategies == StrategyOCO \/ StrategyTWAP \/ StrategyGrid

SpecStrategies == InitStrategies /\ [][NextStrategies]_vars

-----------------------------------------------------------------------------
(* Claims about the OCO engine, checked under SpecOCO *)

\* C1: when place() fails after the exchange accepted the limit leg, a cancel
\* request for that accepted limit leg has been issued by the time the error
\* reaches the caller, so that no half-placed group is left resting.
C1_FailedPlaceCancelsAcceptedLimitLeg ==
    (ocoLastPlace.raised /\ ocoLastPlace.limitId # 0)
        => cancelReqs[ocoLastPlace.limitId] >= 1

\* C2: once a poll has observed one leg of the placed group FILLED, the
\* cancel requests that get_status() calls have issued for the sibling leg
\* number exactly one, however many polls followed.
C2_SiblingCancelIssuedExactlyOnce ==
    /\ (ocoOrders.limit # 0 /\ ocoOrders.limit \in ocoSeenFilled)
           => ocoPollCancels[ocoOrders.stop] = 1
    /\ (ocoOrders.stop # 0 /\ ocoOrders.stop \in ocoSeenFilled)
           => ocoPollCancels[ocoOrders.limit] = 1

\* C3: a get_status() call that observes a leg FILLED issues the cancel
\* request for the other leg within that same call, for either leg.
C3_FilledLegCancelsSiblingInSameCall ==
    /\ ocoLastPoll.limitObs = "FILLED" => "stop" \in ocoLastPoll.cancels
    /\ ocoLastPoll.stopObs = "FILLED" => "limit" \in ocoLastPoll.cancels

\* C3 witness: a second poll of a group whose limit leg had already been
\* seen FILLED observes it FILLED again and again asks to cancel the stop leg.
C3_Witness ==
    /\ ocoPolls >= 2
    /\ ocoLastPoll.limitObs = "FILLED"
    /\ "stop" \in ocoLastPoll.cancels
    /\ ocoLastPoll.stopObs = "CANCELED"

-----------------------------------------------------------------------------
(* Claims about the TWAP scheduler, checked under SpecTWAP *)

\* C4: once cancel() was requested and execute() stands between two chunks
\* (before the sleep or before the placement of chunk i >= 2), no further
\* chunk order is submitted.
C4_NoChunkSubmittedAfterCancel ==
    [][(twCancelRequested /\ twI >= 2 /\ twPc \in {"wait", "chunk"})
           => twSubmitted' = twSubmitted]_vars

\* C5: the quantities of all chunk orders submitted sum to at most
\* total_quantity, and at most chunk_count chunk orders are submitted.
C5_SubmittedWithinTotalAndCount ==
    /\ SumSeq(twSubmitted) <= twTotal
    /\ Len(twSubmitted) <= twChunks

\* C5 witness: a finished plan of several chunks, one skipped by the price
\* limit and one only partially filled, with every other chunk submitted.
C5_Witness ==
    /\ twPc = "done"
    /\ twChunks >= 3
    /\ Cardinality(twSkipped) = 1
    /\ Len(twSubmitted) = twChunks - 1
    /\ \E k \in 1..Len(twOrders) : twOrders[k] > 0 /\ twOrders[k] < twSubmitted[k]

-----------------------------------------------------------------------------
(* Claims about the grid engine, checked under SpecGrid *)

LiveOrdersOfLevel(l) ==
    {id \in 1..Len(exch) : exch[id].level = l /\ exch[id].status \in LiveStatuses}

\* C6: at every point after start() and across update() calls, each grid
\* level has at most one live exchange order that the engine submitted.
C6_AtMostOneLiveOrderPerLevel ==
    \A l \in 1..gCount : Cardinality(LiveOrdersOfLevel(l)) <= 1

\* C7: a level whose re-placement after an observed fill failed is left in
\* status PENDING (so that a later update() attempts it again).
C7_FailedReplacementLeavesLevelPending ==
    \A l \in gReplaceFailed : gLevels[l].status = "PENDING"

\* C8: when update() observes the order of a level of side BUY (SELL) FILLED,
\* the next placement call made for that level is a SELL (BUY) at the level's
\* price, and once that order is accepted the level carries the flipped side.
C8_FillFlipsSideAtSamePrice ==
    \A l \in 1..gCount :
        gFillSeen[l] # "NONE" =>
            /\ Len(gPlaceCalls[l]) = 1
            /\ gPlaceCalls[l][1] = [side |-> Opposite(gFillSeen[l]),
                                    price |-> gLevels[l].price]
            /\ gLevels[l].status = "ACTIVE" => gLevels[l].side = Opposite(gFillSeen[l])

\* C8 witness: a long-only grid (every initial order a BUY) in which the
\* second update() observes the fill of a SELL, the order the first flip had
\* placed, and places a BUY that the exchange accepts.
C8_Witness ==
    /\ gSide = "LONG"
    /\ gCalls.update = 2
    /\ \E l \in 1..gCount :
          /\ gFillSeen[l] = "SELL"
          /\ gLevels[l].status = "ACTIVE"
          /\ gLevels[l].side = "BUY"
          /\ exch[gLevels[l].order_id].side = "BUY"

-----------------------------------------------------------------------------
(* Claims about single orders, checked under SpecOrder *)

\* C9: once the status of an order is FILLED, CANCELED, REJECTED or EXPIRED,
\* no operation on the order changes its status again.
C9_TerminalStatusNeverChanges ==
    [][(oStatus \in TerminalStatuses) => (oStatus' = oStatus)]_vars

\* C10: no operation sets filled_quantity to a value lower than the value it
\* held before.
C10_FilledQuantityNeverRegresses ==
    [][oFilled' >= oFilled]_vars

\* C11: a cancel() call on an order whose status is terminal, or for which no
\* order id is known (none stored and none given), raises and sends no
\* cancel request to the exchange; and a
\* cancel() call sets CANCELED only when the exchange accepted the request.
C11_CancelRefusedWhenTerminalOrWithoutId ==
    [][(oCalls' # oCalls /\ oLast'.op = "cancel")
          => /\ (oStatus \in TerminalStatuses \/ (oOrderId = 0 /\ oLast'.arg = 0))
                   => (oLast'.raised /\ cancelReqs' = cancelReqs)
             /\ (oStatus' # oStatus) => (oStatus' = "CANCELED" /\ ~oLast'.raised)]_vars

-----------------------------------------------------------------------------
(* Claims about limit and stop-limit orders, checked under SpecLimit *)

-----------------------------------------------------------------------------
(* Further claims about the OCO engine, checked under SpecOCO *)

\* C13: a cancel() call sends one cancel request for every leg whose id is
\* recorded, whatever became of the other leg's request.
C13_CancelRequestsEveryKnownLeg ==
    [][(ocoCancels' = ocoCancels + 1)
          => /\ ocoOrders.limit # 0
                   => cancelReqs'[ocoOrders.limit] = cancelReqs[ocoOrders.limit] + 1
             /\ ocoOrders.stop # 0
                   => cancelReqs'[ocoOrders.stop] = cancelReqs[ocoOrders.stop] + 1]_vars

\* C14: after a poll that read both legs as FILLED the group's status is
\* "both_filled".
C14_BothLegsFilledReported ==
    (ocoLastPoll.limitObs = "FILLED" /\ ocoLastPoll.stopObs = "FILLED")
        => ocoStatus = "both_filled"

-----------------------------------------------------------------------------
(* Further claims about the TWAP scheduler, checked under SpecTWAP *)

\* C15: once a chunk placement has failed (the price query or the order
\* request raised), the plan's status is FAILED, execute() has raised, and
\* no further chunk order is submitted.
C15_ChunkFailureAbortsSchedule ==
    /\ [](twLastChunk.failed => (twStatus = "FAILED" /\ twPc = "raised"))
    /\ [][twLastChunk.failed => twSubmitted' = twSubmitted]_vars

\* C15 witness: an order request was rejected while chunks were still due.
C15_Witness ==
    /\ twLastChunk.failed
    /\ twLastChunk.i < twChunks
    /\ Len(twSubmitted) > Len(twOrders)

\* The market price p read for a chunk lies beyond the price limit: above it
\* for a BUY, below it for a SELL.
PriceBeyondLimit(p) ==
    /\ twPriceLimit # 0
    /\ p # 0
    /\ (twSide = "BUY" => p > twPriceLimit)
    /\ (twSide = "SELL" => p < twPriceLimit)

\* C16: a chunk whose market price lies beyond the price limit submits no
\* order, and execute() goes on to the sleep before the next chunk (or to
\* the end after the last chunk); no chunk index is attempted twice.
C16_ChunkBeyondLimitSkippedForGood ==
    /\ [](twPc = "chunk" => twI > twLastChunk.i)
    /\ [][(twPc = "chunk" /\ twPc' # "chunk" /\ PriceBeyondLimit(twLastChunk'.price))
            => /\ twSubmitted' = twSubmitted
               /\ twPc' = (IF twI < twChunks THEN "wait" ELSE "finish")
               /\ twI' = (IF twI < twChunks THEN twI + 1 ELSE twI)]_vars

\* C16 witness: a SELL plan skipped a chunk below its limit and stands at
\* the placement of the next chunk.
C16_Witness ==
    /\ twSide = "SELL"
    /\ twPc = "chunk"
    /\ (twI - 1) \in twSkipped
    /\ PriceBeyondLimit(twLastChunk.price)

\* C17: when execute() returns, the status is COMPLETED if and only if at
\* least 99% of total_quantity is filled, and PARTIALLY_FILLED otherwise.
C17_FinalStatusByNinetyNinePercent ==
    [][(twPc = "finish" /\ twPc' = "done")
          => /\ (twFilled * 100 >= twTotal * 99) => twStatus' = "COMPLETED"
             /\ (twFilled * 100 < twTotal * 99) => twStatus' = "PARTIALLY_FILLED"]_vars

\* C17 witness: execute() returned COMPLETED with less than everything
\* filled.
C17_Witness ==
    /\ twPc = "done"
    /\ twStatus = "COMPLETED"
    /\ twFilled < twTotal
    /\ twChunks >= 2

-----------------------------------------------------------------------------
(* Claims about the TWAP schedule, checked under SpecTWAPClock *)

\* The time chunk i is due: start_time (tick 0) + (i - 1) * interval.
ChunkDueAt(i) == (i - 1) * twInterval

\* C18: chunk 1 is placed at start_time; a later chunk i is never placed
\* before its due time, and exactly at its due time whenever the placement
\* before it had returned by then.
C18_ChunksPlacedOnSchedule ==
    \A i \in 1..Len(twPlacedAt) :
        /\ i = 1 => twPlacedAt[i] = 0
        /\ i >= 2 => /\ twPlacedAt[i] >= ChunkDueAt(i)
                     /\ twDoneAt[i - 1] <= ChunkDueAt(i) => twPlacedAt[i] = ChunkDueAt(i)

\* C18 witness: chunk 2 came late because chunk 1 took longer than one
\* interval, and chunk 3 was on time all the same.
C18_Witness ==
    /\ Len(twPlacedAt) >= 3
    /\ twPlacedAt[2] > ChunkDueAt(2)
    /\ twDoneAt[2] > twPlacedAt[2]
    /\ twDoneAt[2] <= ChunkDueAt(3)
    /\ twPlacedAt[3] = ChunkDueAt(3)

-----------------------------------------------------------------------------
(* Claims about the grid levels, checked under SpecGridLevels *)

\* C19: the level prices of a constructed grid increase strictly with the
\* level index, and every two adjacent levels are the same distance apart.
C19_LevelPricesEvenlySpaced ==
    gStatus # "NONE" =>
        \A l \in 1..(gCount - 1) :
            /\ gLevels[l + 1].price > gLevels[l].price
            /\ gLevels[l + 1].price - gLevels[l].price
                   = gLevels[2].price - gLevels[1].price

-----------------------------------------------------------------------------
(* Further claims about the grid engine, checked under SpecGrid *)

\* C20: a stop() call sends exactly one cancel-all request and no cancel
\* request for a single order, and leaves every level with status CANCELED.
C20_StopCancelsAllAndMarksLevels ==
    [][(gCalls'.stop = gCalls.stop + 1)
          => /\ gCancelAlls' = gCancelAlls + 1
             /\ cancelReqs' = cancelReqs
             /\ \A l \in 1..gCount : gLevels'[l].status = "CANCELED"]_vars

\* The sides of the order requests recorded for level l in calls.
SidesRequested(calls, l) == {calls[l][k].side : k \in 1..Len(calls[l])}

\* C21: the order requests of one start() call are split by the market
\* price: every level that gets a BUY request lies below every level that
\* gets a SELL request, so no level gets both.
C21_StartSplitsSidesByMarketPrice ==
    [][(gCalls'.start = gCalls.start + 1)
          => \A l, m \in 1..gCount :
                ("BUY" \in SidesRequested(gPlaceCalls', l)
                    /\ "SELL" \in SidesRequested(gPlaceCalls', m))
                  => gLevels[l].price < gLevels[m].price]_vars

-----------------------------------------------------------------------------
(* Further claims about the single order classes. *)

\* C22: for a positive quantity within [minQty, maxQty] and a positive
\* stepSize, _validate_quantity returns the largest multiple of stepSize
\* that is not above the quantity (floor(q/s)*s), hence never more than it.
C22_QuantityRoundedDownToStep ==
    (vqLast.called /\ vqLast.has /\ vqLast.quantity > 0 /\ vqLast.step > 0
        /\ vqLast.min <= vqLast.quantity /\ vqLast.quantity <= vqLast.max)
      => /\ vqLast.ok
         /\ vqLast.qty % vqLast.step = 0
         /\ vqLast.qty <= vqLast.quantity
         /\ vqLast.quantity < vqLast.qty + vqLast.step

\* A quantity that is no multiple of the step was rounded down to one.
C22_Witness ==
    /\ vqLast.called /\ vqLast.has /\ vqLast.ok
    /\ vqLast.step > 1
    /\ vqLast.quantity % vqLast.step # 0
    /\ 0 < vqLast.qty /\ vqLast.qty < vqLast.quantity

-----------------------------------------------------------------------------
(* Further claims about the OCO engine. *)

\* The limit price of constructor call c is on the wrong side of its stop
\* price.
OCOPricesMisordered(c) ==
    \/ (c.side = "BUY" /\ c.limit >= c.stop)
    \/ (c.side = "SELL" /\ c.limit <= c.stop)

-----------------------------------------------------------------------------
(* Claims about all strategies. *)

\* C24: no placement call is made for a symbol that client.validate_symbol
\* reports as not tradable; here for the grid engine: whenever an operation
\* of the grid has sent an order request, the symbol is a valid one.
C24_NoPlacementForInvalidSymbol ==
    (\E l \in 1..gCount : Len(gPlaceCalls[l]) > 0) => gSymbolValid

-----------------------------------------------------------------------------
(* Claims about the client. *)

\* C25: every request calls the wrapped function at most MAX_RETRIES times;
\* it returns as soon as a call succeeds, surfaces a 4xx client error
\* without a further call, and when the calls keep failing transiently it
\* makes all MAX_RETRIES calls and then surfaces the error.
C25_RequestRetriedUpToThreeTimes ==
    \A k \in 1..Len(rqLog) :
        LET r == rqLog[k]
            last == r.outs[r.calls]
        IN /\ r.calls \in 1..MAX_RETRIES
           /\ \A a \in 1..(r.calls - 1) : r.outs[a] \in {"transient", "rate_limit"}
           /\ last = "ok" => r.result = "returned"
           /\ last = "client_error" => r.result = "raised_error"
           /\ last \in {"transient", "rate_limit"}
                 => r.calls = MAX_RETRIES /\ r.result = "raised_error"

\* C26: within one strategy operation no order request is sent twice: one
\* place() sends at most one request per OCO leg, execute() calls
\* _place_chunk for strictly increasing chunk numbers, and one start() or
\* update() sends at most one request per grid level and side.
C26_NoPlacementResubmitted ==
    /\ [](ocoLastPlace.limitCalls <= 1 /\ ocoLastPlace.stopCalls <= 1)
    /\ [][Len(twPlacedAt') > Len(twPlacedAt)
             => /\ Len(twPlacedAt') = Len(twPlacedAt) + 1
                /\ Len(twSubmitted') <= Len(twSubmitted) + 1
                /\ twLastChunk'.i > twLastChunk.i]_vars
    /\ [](gStatus # "NONE"
             => \A l \in 1..gCount :
                    \A j, k \in 1..Len(gPlaceCalls[l]) :
                        gPlaceCalls[l][j].side = gPlaceCalls[l][k].side => j = k)

\* An operation of the grid sent a request for a level, the exchange
\* refused it, and the operation has returned.
C26_Witness ==
    /\ gStatus = "RUNNING"
    /\ \E l \in 1..gCount :
          /\ Len(gPlaceCalls[l]) = 1
          /\ gLevels[l].order_id = 0

-----------------------------------------------------------------------------
(* Claims about place() of the single order classes. *)

\* C27: a place() call that raised leaves the status INITIALIZED or sets
\* it to REJECTED; it records no other status.
C27_FailedPlaceLeavesInitializedOrRejected ==
    [][(oCalls' = oCalls + 1 /\ oLast'.op = "place" /\ oLast'.raised)
          => oStatus' \in {"INITIALIZED", "REJECTED"}]_vars

\* C28: place() on an INITIALIZED order sends the order to the exchange,
\* and when it returns the exchange order id is recorded.
C28_PlaceReachesExchange ==
    [][(oCalls' = oCalls + 1 /\ oLast'.op = "place" /\ oStatus = "INITIALIZED")
          => /\ oLast'.sent
             /\ ~oLast'.raised => oOrderId' # 0]_vars

-----------------------------------------------------------------------------
(* Further claim about OCOOrder.get_status(). *)

\* C30: when the cancel request for the sibling of a filled leg fails
\* during get_status() and both status reads succeed, get_status() does
\* not raise and its result holds the status of both legs.
C30_FailedSiblingCancelDoesNotRaise ==
    (ocoLastPoll.called /\ ocoLastPoll.cancelFailed # {}
        /\ ~ocoLastPoll.readFailed)
      => /\ ~ocoLastPoll.raised
         /\ ocoLastPoll.limitObs # "NONE"
         /\ ocoLastPoll.stopObs # "NONE"

\* get_status() saw the limit leg FILLED and its cancel request for the
\* stop leg failed.
C30_Witness ==
    /\ ocoLastPoll.called
    /\ ocoLastPoll.limitObs = "FILLED"
    /\ "stop" \in ocoLastPoll.cancelFailed
    /\ ~ocoLastPoll.readFailed

-----------------------------------------------------------------------------
(* Claims about the exchange calls of the orders and strategies. *)

\* C31: an order placement, cancellation or status call whose first
\* attempt fails transiently is attempted again before the failure reaches
\* the calling order or strategy.
C31_OrderCallsRetried ==
    \A k \in 1..Len(rqLog) :
        (rqLog[k].caller \in OrderExchangeFunctions
            /\ rqLog[k].outs[1] \in {"transient", "rate_limit"})
          => rqLog[k].calls >= 2

-----------------------------------------------------------------------------
(* Claim about the symbol lookup. *)

\* C32: a lookup nests no deeper than validate_symbol, get_symbol_info,
\* get_exchange_info; when it has ended it has issued the exchange-info
\* request, and validate_symbol has answered True for a symbol with status
\* TRADING and the required permissions.
C32_LookupTerminatesAndAccepts ==
    /\ Len(lkStack) <= 3
    /\ lkResult # "none" =>
          /\ lkRequests >= 1
          /\ (lkMeta.status = "TRADING" /\ lkMeta.permissions)
                => lkResult \in {"True", "info"}

-----------------------------------------------------------------------------
(* Claims about cancel() and execute() of the TWAP scheduler, checked      *)
(* under SpecTWAP.                                                          *)

\* C33: once the status of the plan is CANCELED, no step of execute()
\* changes it.
C33_CanceledStaysCanceled ==
    [][(twStatus = "CANCELED") => (twStatus' = "CANCELED")]_vars

-----------------------------------------------------------------------------
(* Claims about start(), update() and stop() of the grid engine, checked   *)
(* under SpecGrid.                                                          *)

\* C34: once stop() has been called, an update() call adds no order to the
\* exchange.
C34_NoOrderFromUpdateAfterStop ==
    [][(gCalls.stop > 0 /\ gCalls'.update > gCalls.update)
           => (Len(exch') = Len(exch))]_vars

\* The order requests of the last start() or update() call for the side.
GridRequested(l, side) ==
    {k \in 1..Len(gPlaceCalls[l]) : gPlaceCalls[l][k].side = side}

\* C36: start() requests a SELL order at a level only below which a market
\* price was read.  Every market price of the model is at least the price
\* of the lowest level, so start() requests no SELL order at the lowest
\* level, whether or not a price query failed.
C36_NoSellFromFailedPriceQuery ==
    [][(gCalls'.start > gCalls.start)
           => (GridRequested(1, "SELL")' = {})]_vars

\* The quantities of the order requests of the last call for the side,
\* summed over the levels.
GridRequestedQty(side) ==
    SumSeq([l \in 1..gCount |->
               gLevels[l].quantity * Cardinality(GridRequested(l, side))])

\* C38: the BUY orders one start() call requests sum to at most the total
\* quantity of the grid, and so do its SELL orders.
C38_StartWithinTotalQuantity ==
    [][(gCalls'.start > gCalls.start)
           => /\ GridRequestedQty("BUY")' <= gQuantity
              /\ GridRequestedQty("SELL")' <= gQuantity]_vars

-----------------------------------------------------------------------------
(* Claim about a failed place() of the OCO group, checked under SpecOCO.   *)

\* C35: when a place() call raises, it leaves the status of the group
\* FAILED.
C35_RaisedPlaceLeavesFailed ==
    [][(ocoPlaces' > ocoPlaces /\ ocoLastPlace'.raised)
           => (ocoStatus' = "FAILED")]_vars

-----------------------------------------------------------------------------
(* Claim about the quantity check, checked under SpecQuantity.             *)

\* C37: with a LOT_SIZE filter for the symbol, the quantity
\* _validate_quantity returns is greater than 0 and at least minQty.
C37_ReturnedQuantityAtLeastMinimum ==
    (vqLast.called /\ vqLast.has /\ vqLast.ok)
        => (vqLast.qty > 0 /\ vqLast.qty >= vqLast.min)

-----------------------------------------------------------------------------
(* Claim about repeated execute() calls, checked under SpecTWAPExecute.    *)

\* C39: an execute() call made when the status is not INITIALIZED is
\* refused, and the refused call submits no chunk and leaves the status,
\* the filled quantity and the list of placed chunks as they were; chunk 1
\* is placed only by the call that found the status INITIALIZED.
C39_RefusedExecuteChangesNothing ==
    [][/\ (twStatus # "INITIALIZED" /\ twI' = 1) => (twI = 1)
       /\ (twRefusals' # twRefusals)
             => /\ twStatus # "INITIALIZED"
                /\ UNCHANGED <<twStatus, twFilled, twOrders, twSubmitted, exch>>]_vars

C39_Witness ==
    /\ twRefusals > 0
    /\ twStatus \in {"EXECUTING", "COMPLETED", "PARTIALLY_FILLED", "CANCELED"}
    /\ Len(twSubmitted) > 0

====
